---- MODULE Spec2Model ----
(***************************************************************************)
(* A model of the time-discretised optimisation pipeline of                *)
(* pyomo_optimizer_user_interface: the degrees-of-freedom analyzer, the    *)
(* discretizer, the monolithic and the sequential symbol binders and       *)
(* model builders, the solve invocation and the extraction, as run() of    *)
(* main.py drives them.                                                    *)
(*                                                                         *)
(* Numbers are exact rationals <<n, d>> (d > 0, lowest terms).  Symbolic   *)
(* expressions are trees of tagged tuples.  The external solver is a       *)
(* black box: its termination condition is a nondeterministic choice and   *)
(* the value it assigns to a variable is a term that is a function of the  *)
(* constraint system it was handed.                                        *)
(***************************************************************************)
EXTENDS Integers, Sequences, FiniteSets, TLC

VARIABLES
    cfg,        \* the loaded problem definition (_loaded_parameters, _lookup_tables)
    pc,         \* position of run(): "start", "analyzed", "built", "solved", "stepping", "done", "error"
    analysis,   \* what the analyzer computed and returned
    model,      \* the Pyomo model last built (monolithic model or the current single-step model)
    tau,        \* the time grid, a sequence of rationals
    results,    \* termination conditions of the solves so far, in order
    sol_dict,   \* solution trace: function name -> sequence of values
    n,          \* sequential mode: number of steps completed
    err,        \* the error raised, when pc = "error"
    warnings    \* sequential mode: the steps that were reported behind schedule

vars == <<cfg, pc, analysis, model, tau, results, sol_dict, n, err, warnings>>

-----------------------------------------------------------------------------
(* Bounds of the model *)

\* values a state variable, a parameter or a test point may take: -MaxVal..MaxVal
MaxVal == 1
\* largest number of declared logic rules
MaxRules == 2
\* the step sizes are 1/1 .. 1/MaxDen
MaxDen == 2
\* the horizon is at most MaxSteps steps long
MaxSteps == 2

-----------------------------------------------------------------------------
(* Exact rational arithmetic *)

Abs(i) == IF i < 0 THEN -i ELSE i

RECURSIVE Gcd(_, _)
Gcd(a, b) == IF b = 0 THEN a ELSE Gcd(b, a % b)

\* the rational num/den in lowest terms, den # 0
Rat(num, den) ==
    LET g == Gcd(Abs(num), Abs(den))
        s == IF den < 0 THEN -1 ELSE 1
    IN  <<(s * num) \div g, (s * den) \div g>>

Q(i) == <<i, 1>>
RAdd(p, q) == Rat(p[1] * q[2] + q[1] * p[2], p[2] * q[2])
RSub(p, q) == Rat(p[1] * q[2] - q[1] * p[2], p[2] * q[2])
RMul(p, q) == Rat(p[1] * q[1], p[2] * q[2])
RDiv(p, q) == Rat(p[1] * q[2], p[2] * q[1])
RFloor(p) == p[1] \div p[2]
RCeil(p) == -((-p[1]) \div p[2])

\* markers for Python's None and for a missing (NaN) tensor entry
None == <<"None">>
NaN == <<"nan">>

-----------------------------------------------------------------------------
(* Symbolic expressions (sympy) *)

Num(q) == <<"num", q>>              \* a number
Sym(s) == <<"sym", s>>              \* Symbol(s)
Fn(f) == <<"fn", f>>                \* the applied function f(t)
Deriv(e) == <<"d", e>>              \* Derivative(e, t)
Call(g, a) == <<"call", g, a>>      \* g(a), a function applied to an expression
Add(l, r) == <<"add", l, r>>
Sub(l, r) == <<"sub", l, r>>
Mul(l, r) == <<"mul", l, r>>
Div(l, r) == <<"div", l, r>>
PVar(v, i) == <<"var", v, i>>       \* the Pyomo variable v[i]
Le(l, r) == <<"le", l, r>>          \* l <= r, unevaluated
Ge(l, r) == <<"ge", l, r>>          \* l >= r, unevaluated
Eq(l, r) == <<"eq", l, r>>          \* l == r, unevaluated

IsBin(e) == e[1] \in {"add", "sub", "mul", "div"}

\* expr.free_symbols: f(t) and Derivative(., t) carry the symbol t
RECURSIVE free_symbols(_)
free_symbols(e) ==
    CASE e[1] = "sym" -> {e[2]}
      [] e[1] = "fn" -> {"t"}
      [] e[1] = "d" -> free_symbols(e[2]) \cup {"t"}
      [] e[1] = "call" -> free_symbols(e[3])
      [] IsBin(e) -> free_symbols(e[2]) \cup free_symbols(e[3])
      [] OTHER -> {}

\* Derivative(e, t) as sympy constructs it: zero when e does not depend on t
MkDeriv(e) == IF "t" \in free_symbols(e) THEN Deriv(e) ELSE Num(Q(0))

\* expr.replace / expr.xreplace / expr.subs of one exact subexpression
RECURSIVE xreplace(_, _, _)
xreplace(e, old, new) ==
    IF e = old THEN new
    ELSE CASE e[1] = "d" -> MkDeriv(xreplace(e[2], old, new))
           [] e[1] = "call" -> Call(e[2], xreplace(e[3], old, new))
           [] IsBin(e) -> <<e[1], xreplace(e[2], old, new), xreplace(e[3], old, new)>>
           [] OTHER -> e

\* the numeric value of an expression of numbers and symbols under env
RECURSIVE Eval(_, _)
Eval(e, env) ==
    CASE e[1] = "num" -> e[2]
      [] e[1] = "sym" -> env[e[2]]
      [] e[1] = "add" -> RAdd(Eval(e[2], env), Eval(e[3], env))
      [] e[1] = "sub" -> RSub(Eval(e[2], env), Eval(e[3], env))
      [] e[1] = "mul" -> RMul(Eval(e[2], env), Eval(e[3], env))
      [] e[1] = "div" -> RDiv(Eval(e[2], env), Eval(e[3], env))

\* sp.simplify, as far as the model needs it: numeric subexpressions are folded
RECURSIVE simplify(_)
simplify(e) ==
    IF IsBin(e)
    THEN LET l == simplify(e[2])
             r == simplify(e[3])
         IN  IF l[1] = "num" /\ r[1] = "num" /\ Len(l[2]) = 2 /\ Len(r[2]) = 2
                /\ (e[1] = "div" => r[2][1] # 0)
             THEN Num(Eval(<<e[1], l, r>>, <<>>))
             ELSE <<e[1], l, r>>
    ELSE IF e[1] = "call" THEN Call(e[2], simplify(e[3]))
    ELSE e

\* str.upper() and str.lower() on the names of lookup tables
upper(s) == CASE s = "damping" -> "DAMPING" [] OTHER -> s
lower(s) ==
    CASE s = "DAMPING" -> "damping" [] s = "GAIN" -> "gain" [] s = "Reals" -> "reals"
      [] s = "Integers" -> "integers" [] s = "Binary" -> "binary" [] OTHER -> s

\* the elements of a sequence, and a set as a sequence in some fixed order
Range(s) == {s[i] : i \in DOMAIN s}
RECURSIVE SetToSeq(_)
SetToSeq(S) == IF S = {} THEN <<>>
               ELSE LET x == CHOOSE y \in S : TRUE IN <<x>> \o SetToSeq(S \ {x})

-----------------------------------------------------------------------------
(* Discretizer: discretization.py *)

\* a faulty variant of BackwardDifference: the difference taken the wrong way round
BackwardDifferenceReversed(fname, dt) ==
    <<"div", <<"sub", <<"sym", fname \o "_i">>, <<"sym", fname \o "_ip1">>>>, <<"num", dt>>>>

\* the backward difference that stands for d/dt f(t)
BackwardDifference(fname, dt) ==
    Div(Sub(Sym(fname \o "_ip1"), Sym(fname \o "_i")), Num(dt))

\* one pass of the loop over unknown_funcs: the derivative of f first, then f(t) itself
DiscretizeFunction(res, fname, dt) ==
    xreplace(xreplace(res, Deriv(Fn(fname)), BackwardDifference(fname, dt)),
             Fn(fname), Sym(fname \o "_ip1"))

RECURSIVE DiscretizeFunctions(_, _, _)
DiscretizeFunctions(res, unknown_funcs, dt) ==
    IF unknown_funcs = <<>> THEN res
    ELSE DiscretizeFunctions(DiscretizeFunction(res, Head(unknown_funcs), dt),
                             Tail(unknown_funcs), dt)

\* optimization variables written as functions of time collapse to plain symbols
RECURSIVE ReplaceDiscreteParameters(_, _)
ReplaceDiscreteParameters(res, discrete_parameters) ==
    IF discrete_parameters = <<>> THEN res
    ELSE ReplaceDiscreteParameters(
            xreplace(res, Fn(Head(discrete_parameters).name), Sym(Head(discrete_parameters).name)),
            Tail(discrete_parameters))

\* KEY(x_ip1) becomes the symbol KEY_ip1, for every lookup table
RECURSIVE ReplaceLookups(_, _)
ReplaceLookups(res, keys) ==
    IF keys = <<>> THEN res
    ELSE ReplaceLookups(
            xreplace(res, Call(Head(keys), Sym("x_ip1")), Sym(upper(Head(keys)) \o "_ip1")),
            Tail(keys))

\* discretize_symbolic_eq(eq, dt, unknown_funcs, t, discrete_parameters)
discretize_symbolic_eq(eq, dt, unknown_funcs, discrete_parameters, lookup_tables) ==
    simplify(
        ReplaceLookups(
            ReplaceDiscreteParameters(
                DiscretizeFunctions(Sub(eq.lhs, eq.rhs), unknown_funcs, dt),
                discrete_parameters),
            SetToSeq(DOMAIN lookup_tables)))

-----------------------------------------------------------------------------
(* Problem definitions: user_data_example/system_data.py and variations *)

\* an empty dict
EmptyDict == [k \in {} |-> None]

Zero == Num(Q(0))

\* "diff(x(t), t) = a": a single linear ODE
LinearProblem(a) ==
    [ unknown_parameters |-> <<"x">>,
      equations |-> << [lhs |-> Deriv(Fn("x")), rhs |-> Sym("a")] >>,
      parameters |-> [k \in {"a"} |-> Q(a)],
      lookup_tables |-> EmptyDict,
      discrete_parameters |-> <<>>,
      discrete_logic |-> <<>> ]

\* "diff(x(t), t) = t": an ODE forced by the time itself
ForcedProblem ==
    [ unknown_parameters |-> <<"x">>,
      equations |-> << [lhs |-> Deriv(Fn("x")), rhs |-> Sym("t")] >>,
      parameters |-> EmptyDict,
      lookup_tables |-> EmptyDict,
      discrete_parameters |-> <<>>,
      discrete_logic |-> <<>> ]

\* the equations of system_data.py, lines 69-72
SpringEquations ==
    << [lhs |-> Sub(Deriv(Fn("x")), Fn("v")), rhs |-> Zero],
       [lhs |-> Sub(Add(Add(Mul(Sym("m"), Deriv(Fn("v"))),
                            Mul(Call("DAMPING", Fn("x")), Fn("v"))),
                        Mul(Sym("k_eff"), Fn("x"))),
                    Sym("F")),
        rhs |-> Zero] >>

\* the lookup table of system_data.py, lines 45-50: DAMPING over x in [-2, 2]
SpringLookup == [k \in {"DAMPING"} |-> [indep |-> "x", lo |-> Q(-2), hi |-> Q(2)]]

SpringParameters ==
    [k \in {"m", "F", "k_soft", "k_stiff"} |->
        CASE k = "m" -> Q(100) [] k = "F" -> Q(0) [] k = "k_soft" -> Q(500) [] OTHER -> Q(2000)]

\* a dict with one more entry
Put(d, key, val) == [k \in DOMAIN d \cup {key} |-> IF k = key THEN val ELSE d[k]]
\* a dict without one key
Drop(d, key) == [k \in DOMAIN d \ {key} |-> d[k]]

\* the spring-mass system with the stiffness k_eff a fixed parameter
SpringProblem ==
    [ unknown_parameters |-> <<"x", "v">>,
      equations |-> SpringEquations,
      parameters |-> Put(SpringParameters, "k_eff", Q(500)),
      lookup_tables |-> SpringLookup,
      discrete_parameters |-> <<>>,
      discrete_logic |-> <<>> ]

\* the same with a deliberately incomplete parameter set: F is not declared
SpringIncompleteProblem ==
    [SpringProblem EXCEPT !.parameters = Drop(SpringProblem.parameters, "F")]

\* the logic rule of system_data.py, lines 139-155: if x <= 0.5 then k_eff == k_soft,
\* if x >= 0.5 then k_eff == k_stiff
SpringLogic ==
    [ name |-> "spring_stiffness_logic",
      disjunction |->
          << [conditions |-> <<Le(Sym("x"), Num(Rat(1, 2)))>>,
              assignments |-> <<Eq(Sym("k_eff"), Sym("k_soft"))>>],
             [conditions |-> <<Ge(Sym("x"), Num(Rat(1, 2)))>>,
              assignments |-> <<Eq(Sym("k_eff"), Sym("k_stiff"))>>] >> ]

\* system_data.py as it is: k_eff is a tuning variable driven by one logic rule
SpringTunedProblem ==
    [ unknown_parameters |-> <<"x", "v">>,
      equations |-> SpringEquations,
      parameters |-> SpringParameters,
      lookup_tables |-> SpringLookup,
      discrete_parameters |->
          << [name |-> "k_eff", domain |-> "reals", bounds |-> <<Q(100), Q(3000)>>] >>,
      discrete_logic |-> << SpringLogic >> ]

Problems ==
    {LinearProblem(a) : a \in -MaxVal..MaxVal}
        \cup {ForcedProblem, SpringProblem, SpringIncompleteProblem, SpringTunedProblem}

\* Variations of system_data.py in what the builders read of it.
\* The logic rule given several times under its one name
SpringRepeatedRuleProblem(times) ==
    [SpringTunedProblem EXCEPT !.discrete_logic = [i \in 1..times |-> SpringLogic]]

\* the logic rule named like the variable v
SpringRuleNamedAsVariableProblem ==
    [SpringTunedProblem EXCEPT !.discrete_logic = << [SpringLogic EXCEPT !.name = "v"] >>]

\* the logic rule without a name, followed by a rule without a disjunction
SpringUnnamedRuleProblem ==
    [SpringTunedProblem EXCEPT !.discrete_logic =
        << [disjunction |-> SpringLogic.disjunction],
           [name |-> "idle_logic", disjunction |-> <<>>] >>]

\* the lookup table declared over y, which is no variable of the problem
SpringMisnamedLookupProblem ==
    [SpringProblem EXCEPT !.lookup_tables =
        [k \in {"DAMPING"} |-> [indep |-> "y", lo |-> Q(-2), hi |-> Q(2)]]]

\* the lookup table declared over the tuning variable k_eff, which has no bounds
SpringStiffnessLookupProblem ==
    [SpringTunedProblem EXCEPT
        !.lookup_tables = [k \in {"DAMPING"} |-> [indep |-> "k_eff", lo |-> Q(-2), hi |-> Q(2)]],
        !.discrete_parameters = << [name |-> "k_eff", domain |-> "reals"] >>]

\* k_eff a fixed parameter, and two further tuning variables that no equation uses:
\* an integer one with bounds and a binary one without
SpringGearedProblem ==
    [SpringProblem EXCEPT !.discrete_parameters =
        << [name |-> "gear", domain |-> "Integers", bounds |-> <<Q(1), Q(5)>>],
           [name |-> "boost", domain |-> "binary"] >>]

\* the same with a domain the code does not know
SpringUnknownDomainProblem ==
    [SpringProblem EXCEPT !.discrete_parameters =
        << [name |-> "boost", domain |-> "binary"],
           [name |-> "gear", domain |-> "continuous", bounds |-> <<Q(1), Q(5)>>] >>]

BuilderProblems ==
    {SpringRepeatedRuleProblem(times) : times \in 2..3}
        \cup {SpringRuleNamedAsVariableProblem, SpringUnnamedRuleProblem,
              SpringMisnamedLookupProblem, SpringStiffnessLookupProblem,
              SpringGearedProblem, SpringUnknownDomainProblem}

\* Variations in the equations.
\* "diff(x(t), t) = a" with the algebraic output "y(t) = x(t)"
OutputProblem(a) ==
    [ unknown_parameters |-> <<"x", "y">>,
      equations |-> << [lhs |-> Deriv(Fn("x")), rhs |-> Sym("a")],
                       [lhs |-> Fn("y"), rhs |-> Fn("x")] >>,
      parameters |-> [k \in {"a"} |-> Q(a)],
      lookup_tables |-> EmptyDict,
      discrete_parameters |-> <<>>,
      discrete_logic |-> <<>> ]

\* "diff(x(t), t) = g(t)": g is a function of time that is not declared unknown
DrivenProblem ==
    [ unknown_parameters |-> <<"x">>,
      equations |-> << [lhs |-> Deriv(Fn("x")), rhs |-> Fn("g")] >>,
      parameters |-> EmptyDict,
      lookup_tables |-> EmptyDict,
      discrete_parameters |-> <<>>,
      discrete_logic |-> <<>> ]

\* "diff(x(t), t) + diff(g(t), t) = 0": the undeclared function under a derivative
DrivenRateProblem ==
    [DrivenProblem EXCEPT !.equations = << [lhs |-> Add(Deriv(Fn("x")), Deriv(Fn("g"))),
                                           rhs |-> Zero] >>]

\* the spring system with the damping a table over the velocity: DAMPING(v(t))
SpringVelocityDampedProblem ==
    [SpringProblem EXCEPT
        !.equations =
            << [lhs |-> Sub(Deriv(Fn("x")), Fn("v")), rhs |-> Zero],
               [lhs |-> Sub(Add(Add(Mul(Sym("m"), Deriv(Fn("v"))),
                                    Mul(Call("DAMPING", Fn("v")), Fn("v"))),
                                Mul(Sym("k_eff"), Fn("x"))),
                            Sym("F")),
                rhs |-> Zero] >>,
        !.lookup_tables = [k \in {"DAMPING"} |-> [indep |-> "v", lo |-> Q(-2), hi |-> Q(2)]]]

EquationProblems == {DrivenProblem, DrivenRateProblem, SpringVelocityDampedProblem}

\* the optimization block: absent keys take the defaults the code gives them
\* Target expressions are strings, held as the sequence of their lexical chunks: a
\* word, an integer literal, or one of "(", ")", "[", "]", "**2". No two words stand
\* next to each other, so a substring test or a regular expression on the characters
\* is the same test on the chunks. The supported shapes: "sum(<name>**2)",
\* "sum(<name>)", "sum(abs(<name>))", "<name>[k]", a bare "<name>"; the empty string
\* stands for no target_expression at all
TargetSumSq(name) == <<"sum", "(", name, "**2", ")">>
TargetSum(name) == <<"sum", "(", name, ")">>
TargetSumAbs(name) == <<"sum", "(", "abs", "(", name, ")", ")">>
TargetPoint(name, k) == <<name, "[", ToString(k), "]">>
TargetBare(name) == <<name>>
NoTarget == <<>>

OptDisabled ==
    [enabled |-> FALSE, target_expression |-> NoTarget, objective_type |-> "minimize",
     mode |-> "objective_based", objective_function |-> "tracking", targets |-> {}]
OptTarget(expr, sense) ==
    [OptDisabled EXCEPT !.enabled = TRUE, !.target_expression = expr, !.objective_type = sense]
Optimizations ==
    {OptDisabled, OptTarget(TargetSumSq("x"), "minimize"), OptTarget(TargetPoint("x", -1), "maximize"),
     [OptTarget(NoTarget, "minimize") EXCEPT !.objective_function = "quadratic_penalty"]}

\* the declared initial value of an unknown function
InitialValue(fname, x0) == IF fname = "x" THEN Q(x0) ELSE Q(0)

\* How the initial values are declared: as the first entry of a sparse tensor per
\* unknown function ("tensor"), as the init_conditions dict ("dict"), or both; with
\* "sparse" the first entry of the tensor of the last unknown function is missing
\* as well, and there is no dict
InitFormats == {"tensor", "dict", "both"}

\* one problem definition, as initialize_with_data_folder loads it; `rules` is the
\* number of logic rules in <package>/user_data/object_data.json, -1 without that file
Config(problem, dt, steps, final_known, fmt, x0, mode, minlp, rules, opt) ==
    [ unknown_parameters |-> problem.unknown_parameters,
      equations |-> problem.equations,
      parameters |-> problem.parameters,
      lookup_tables |-> problem.lookup_tables,
      discrete_parameters |-> problem.discrete_parameters,
      discrete_logic |-> problem.discrete_logic,
      dt_value |-> dt,
      final_time |-> IF final_known THEN RMul(Q(steps), dt) ELSE None,
      \* the time coordinate of the tensors: 0, dt, .., steps*dt
      time_horizon |-> [i \in 1..(steps + 1) |-> RMul(Q(i - 1), dt)],
      \* name -> first entry, for the tensors that hold missing entries
      tensors |-> IF fmt \in {"tensor", "both"}
                  THEN [f \in Range(problem.unknown_parameters) |-> InitialValue(f, x0)]
                  ELSE IF fmt = "sparse"
                  THEN [f \in Range(problem.unknown_parameters) |->
                           IF f = problem.unknown_parameters[Len(problem.unknown_parameters)]
                           THEN NaN ELSE InitialValue(f, x0)]
                  ELSE EmptyDict,
      init_conditions |-> IF fmt \in {"dict", "both"}
                          THEN [k \in {f \o "0" : f \in Range(problem.unknown_parameters)} |->
                                    IF k = "x0" THEN Q(x0) ELSE Q(0)]
                          ELSE EmptyDict,
      \* name -> the 'bounds' attribute of the tensor, for the tensors that carry one
      bounds |-> EmptyDict,
      solve_mode |-> mode,
      minlp_enabled |-> minlp,
      object_data_logic |-> IF rules >= 0 THEN <<"logic_constraints", rules>> ELSE None,
      optimization |-> opt ]

StepSizes == {Rat(1, d) : d \in 1..MaxDen}

\* the problem definitions a run is followed through: every problem, grid, format
\* of the initial values, mode and MINLP switch; the optimization block varies where
\* it is read, in the monolithic mode
RunConfigs ==
    { Config(p, dt, k, TRUE, fmt, x0, mo[1], minlp, Len(p.discrete_logic), mo[2]) :
        p \in Problems, dt \in StepSizes, k \in 1..MaxSteps, fmt \in InitFormats,
        x0 \in {0, 1}, minlp \in BOOLEAN,
        mo \in ({"monolithic"} \X Optimizations) \cup {<<"timewise", OptDisabled>>} }

\* the problem definitions that vary what only the analyzer reads: the logic block
\* of object_data.json and whether final_time is defined
AnalyzerConfigs ==
    { Config(p, dt, k, fk, fmt, 1, "monolithic", minlp, rules, OptDisabled) :
        p \in Problems, dt \in StepSizes, k \in 1..MaxSteps, fk \in BOOLEAN,
        fmt \in InitFormats, minlp \in BOOLEAN, rules \in -1..MaxRules }

\* the problem definitions that vary what only the builders read: the logic rules,
\* the lookup table's variable, the domains and bounds of the tuning variables
BuilderConfigs ==
    { Config(p, Rat(1, MaxDen), k, TRUE, "both", 1, mode, minlp, Len(p.discrete_logic),
             OptDisabled) :
        p \in BuilderProblems, k \in 1..MaxSteps, mode \in {"monolithic", "timewise"},
        minlp \in BOOLEAN }

\* the problem definitions in which an unknown function has no declared initial value
SparseConfigs ==
    { Config(p, Rat(1, MaxDen), k, TRUE, "sparse", 1, mode, FALSE, Len(p.discrete_logic),
             OptDisabled) :
        p \in {LinearProblem(MaxVal), SpringProblem}, k \in 1..MaxSteps,
        mode \in {"monolithic", "timewise"} }

\* the problem definitions that vary the equations
EquationConfigs ==
    { Config(p, Rat(1, MaxDen), k, TRUE, "both", 1, mode, FALSE, 0, OptDisabled) :
        p \in EquationProblems, k \in 1..MaxSteps, mode \in {"monolithic", "timewise"} }

\* the problem definitions in which an unknown function enters no derivative
OutputConfigs ==
    { Config(OutputProblem(MaxVal), Rat(1, MaxDen), k, TRUE, fmt, 1, mode, FALSE, 0,
             OptDisabled) :
        k \in 1..MaxSteps, fmt \in InitFormats \cup {"sparse"},
        mode \in {"monolithic", "timewise"} }

\* the 'bounds' attributes the tensor of x may carry: both sides, one side only, and
\* bounds wider than the lookup table's range
TensorBounds ==
    {<<Q(-MaxVal), Q(MaxVal)>>, <<None, Q(MaxVal)>>, <<Q(-MaxVal), None>>,
     <<Q(-MaxVal - 2), Q(MaxVal + 2)>>}

\* the problem definitions in which the tensor of an unknown function declares bounds
BoundedConfigs ==
    { [Config(SpringProblem, Rat(1, MaxDen), k, TRUE, "both", 1, mode, FALSE, 0, OptDisabled)
          EXCEPT !.bounds = [f \in {"x"} |-> b]] :
        k \in 1..MaxSteps, mode \in {"monolithic", "timewise"}, b \in TensorBounds }

\* np.linspace(0, final_time, num), the time coordinate system_data.py gives its
\* tensors with num = int(final_time / dt_value) + 1
linspace(final_time, num) ==
    [i \in 1..num |-> RMul(Q(i - 1), RDiv(final_time, Q(num - 1)))]

\* final_time / dt_value where final_time is no multiple of dt_value: a third and
\* two thirds past a whole number of steps
OffGridRatios == {Rat(3 * k + j, 3) : k \in 1..(MaxSteps - 1), j \in {1, 2}}

\* the problem definitions whose final_time is no multiple of dt_value
OffGridConfigs ==
    { [Config(LinearProblem(MaxVal), dt, 1, TRUE, fmt, 1, mode, FALSE, 0, OptDisabled)
          EXCEPT !.final_time = RMul(r, dt),
                 !.time_horizon = linspace(RMul(r, dt), RFloor(r) + 1)] :
        dt \in StepSizes, r \in OffGridRatios, fmt \in {"dict", "both"},
        mode \in {"monolithic", "timewise"} }

\* the problem definitions a run may start from
Configs ==
    RunConfigs \cup AnalyzerConfigs \cup BuilderConfigs \cup SparseConfigs \cup EquationConfigs
        \cup BoundedConfigs \cup OutputConfigs \cup OffGridConfigs

-----------------------------------------------------------------------------
(* Degrees-of-freedom analyzer: constraint_analyzer.py *)

\* len() of a dict; a dict that is absent from the problem definition is read
\* with `get_parameter(..) or {}` everywhere and so stands as the empty dict
DictLen(d) == Cardinality(DOMAIN d)

\* count_time_steps raises unless both final_time and dt_value are defined
TimeStepsDefined(c) == c.final_time # None /\ c.dt_value # None
\* int(final_time / dt_value)
count_time_steps(c) == RFloor(RDiv(c.final_time, c.dt_value))

\* a faulty variant of count_parameters: one instance per interval, not per grid point
count_parameters_per_interval(c) ==
    [total_params |-> (Len(c.unknown_parameters) + Len(c.discrete_parameters)) * count_time_steps(c),
     state_params |-> Len(c.unknown_parameters) * count_time_steps(c),
     opt_params |-> Len(c.discrete_parameters) * count_time_steps(c)]

\* count_parameters: total_params, state_params, opt_params
count_parameters(c) ==
    LET N == count_time_steps(c) + 1
        state_params == Len(c.unknown_parameters) * N
        opt_params == Len(c.discrete_parameters) * N
    IN  [total_params |-> state_params + opt_params,
         state_params |-> state_params, opt_params |-> opt_params]

\* load_logic_constraints: the block of object_data.json, None when it cannot be read
load_logic_constraints(c) == c.object_data_logic

\* count_restrictions: total, initial, ODE and logic constraints
count_restrictions(c) ==
    LET N == count_time_steps(c)
        init_constraints == DictLen(c.init_conditions)
        ode_constraints == Len(c.equations) * N
        logic_constraints ==
            IF c.minlp_enabled /\ load_logic_constraints(c) # None THEN N + 1 ELSE 0
    IN  [total_constraints |-> init_constraints + ode_constraints + logic_constraints,
         init_constraints |-> init_constraints, ode_constraints |-> ode_constraints,
         logic_constraints |-> logic_constraints]

\* a faulty variant of Classify: a surplus of constraints passes as fully constrained
ClassifyLenient(degrees_of_freedom) ==
    IF degrees_of_freedom <= 0 THEN "fully_constrained" ELSE "under_constrained"

\* the three-way classification of analyze_constraint_structure
Classify(degrees_of_freedom) ==
    IF degrees_of_freedom = 0 THEN "fully_constrained"
    ELSE IF degrees_of_freedom > 0 THEN "under_constrained"
    ELSE "over_constrained"

\* the count the classification reports: the deficit, or abs() of the redundancy
ReportedCount(degrees_of_freedom) ==
    IF degrees_of_freedom = 0 THEN 0
    ELSE IF degrees_of_freedom > 0 THEN degrees_of_freedom
    ELSE Abs(degrees_of_freedom)

\* analyze_constraint_structure
analyze_constraint_structure(c) ==
    LET p == count_parameters(c)
        r == count_restrictions(c)
        dof == p.total_params - r.total_constraints
    IN  [total_params |-> p.total_params, state_params |-> p.state_params,
         opt_params |-> p.opt_params,
         total_constraints |-> r.total_constraints, init_constraints |-> r.init_constraints,
         ode_constraints |-> r.ode_constraints, logic_constraints |-> r.logic_constraints,
         degrees_of_freedom |-> dof, system_type |-> Classify(dof),
         reported |-> ReportedCount(dof)]

\* analyze_without_logic: the degrees of freedom with the logic constraints left out
analyze_without_logic(c) ==
    (Len(c.unknown_parameters) + Len(c.discrete_parameters)) * (count_time_steps(c) + 1)
        - (DictLen(c.init_conditions) + Len(c.equations) * count_time_steps(c))

NoAnalysis == [system_type |-> "none"]

-----------------------------------------------------------------------------
(* Symbol binder of the monolithic builder: constraint_rules.py *)

\* dict.update: the entries of b override those of a
Update(a, b) == [k \in DOMAIN a \cup DOMAIN b |-> IF k \in DOMAIN b THEN b[k] ELSE a[k]]

\* sympy2pyomo_expression: every symbol is replaced by what the symbol map holds for it
RECURSIVE Substitute(_, _)
Substitute(e, map) ==
    CASE e[1] = "sym" -> IF e[2] \in DOMAIN map THEN map[e[2]] ELSE e
      [] e[1] = "d" -> Deriv(Substitute(e[2], map))
      [] e[1] = "call" -> Call(e[2], Substitute(e[3], map))
      [] IsBin(e) -> <<e[1], Substitute(e[2], map), Substitute(e[3], map)>>
      [] OTHER -> e

\* a faulty variant of Convertible: an applied function of time passes
RECURSIVE ConvertibleLenient(_)
ConvertibleLenient(e) ==
    CASE e[1] \in {"d", "call"} -> FALSE
      [] IsBin(e) -> ConvertibleLenient(e[2]) /\ ConvertibleLenient(e[3])
      [] OTHER -> TRUE

\* an expression sympy2pyomo_expression can convert: no applied function and
\* no derivative is left in it
RECURSIVE Convertible(_)
Convertible(e) ==
    CASE e[1] \in {"fn", "d", "call"} -> FALSE
      [] IsBin(e) -> Convertible(e[2]) /\ Convertible(e[3])
      [] OTHER -> TRUE

\* a faulty variant of missing_symbols: nothing is ever reported missing
missing_symbols_ignored(residual, symbol_map) == {}

\* free_symbols - symbol_map.keys(): the symbols the binder has nothing for
missing_symbols(residual, symbol_map) == free_symbols(residual) \ DOMAIN symbol_map

\* a faulty variant of MonolithicSymbolMap: the output of a lookup table is bound
\* at i instead of i + 1
MonolithicSymbolMapLagging(m, i, unknown_funcs, param_mapping, dt_value, lookup_tables, discrete_parameters, time_array) ==
    LET funcs == [s \in {f \o "_ip1" : f \in Range(unknown_funcs)}
                        \cup {f \o "_i" : f \in Range(unknown_funcs)} |->
                    LET f == CHOOSE g \in Range(unknown_funcs) :
                                 s = g \o "_ip1" \/ s = g \o "_i"
                    IN  IF s = f \o "_ip1" THEN PVar(f, i + 1) ELSE PVar(f, i)]
        params == [k \in DOMAIN param_mapping |-> Num(param_mapping[k])]
        step == [k \in {"dt"} |-> Num(dt_value)]
        lookups == [s \in {upper(k) \o "_ip1" : k \in DOMAIN lookup_tables} |->
                      LET k == CHOOSE j \in DOMAIN lookup_tables : s = upper(j) \o "_ip1"
                      IN  PVar(lower(k), i)]
        names == {d.name : d \in {x \in Range(discrete_parameters) : x.name \in m.var_names}}
        discrete == [s \in names \cup {v \o "_ip1" : v \in names} \cup {v \o "_i" : v \in names} |->
                       LET v == CHOOSE w \in names : s \in {w, w \o "_ip1", w \o "_i"}
                       IN  IF s = v \o "_i" THEN PVar(v, i) ELSE PVar(v, i + 1)]
        time == [k \in {"t"} |-> Num(time_array[i + 1])]
    IN  Update(Update(Update(Update(Update(funcs, params), step), lookups), discrete), time)

\* the symbol map that rule(model, i) of generate_constraint_rule builds,
\* in the order the code fills it
MonolithicSymbolMap(m, i, unknown_funcs, param_mapping, dt_value, lookup_tables, discrete_parameters, time_array) ==
    LET funcs == [s \in {f \o "_ip1" : f \in Range(unknown_funcs)}
                        \cup {f \o "_i" : f \in Range(unknown_funcs)} |->
                    LET f == CHOOSE g \in Range(unknown_funcs) :
                                 s = g \o "_ip1" \/ s = g \o "_i"
                    IN  IF s = f \o "_ip1" THEN PVar(f, i + 1) ELSE PVar(f, i)]
        params == [k \in DOMAIN param_mapping |-> Num(param_mapping[k])]
        step == [k \in {"dt"} |-> Num(dt_value)]
        lookups == [s \in {upper(k) \o "_ip1" : k \in DOMAIN lookup_tables} |->
                      LET k == CHOOSE j \in DOMAIN lookup_tables : s = upper(j) \o "_ip1"
                      IN  PVar(lower(k), i + 1)]
        names == {d.name : d \in {x \in Range(discrete_parameters) : x.name \in m.var_names}}
        discrete == [s \in names \cup {v \o "_ip1" : v \in names} \cup {v \o "_i" : v \in names} |->
                       LET v == CHOOSE w \in names : s \in {w, w \o "_ip1", w \o "_i"}
                       IN  IF s = v \o "_i" THEN PVar(v, i) ELSE PVar(v, i + 1)]
        time == [k \in {"t"} |-> Num(time_array[i + 1])]
    IN  Update(Update(Update(Update(Update(funcs, params), step), lookups), discrete), time)

\* rule(model, i) of generate_constraint_rule: the constraint, or the error raised;
\* the message of the error names the missing symbols and no expression
generate_constraint_rule(disc, m, i, unknown_funcs, param_mapping, dt_value, lookup_tables, discrete_parameters, time_array) ==
    LET map == MonolithicSymbolMap(m, i, unknown_funcs, param_mapping, dt_value,
                                   lookup_tables, discrete_parameters, time_array)
        missing == missing_symbols(disc, map)
    IN  IF missing # {}
        THEN [ok |-> FALSE, error |-> "ValueError: Unmapped symbols detected",
              missing |-> missing, expr |-> None]
        ELSE IF ~Convertible(disc)
        THEN [ok |-> FALSE, error |-> "sympy2pyomo_expression: no Pyomo counterpart",
              missing |-> {}, expr |-> None]
        ELSE [ok |-> TRUE, body |-> Substitute(disc, map)]

-----------------------------------------------------------------------------
(* Pyomo models *)

\* ConcreteModel() with the time set T
NewModel(kind, T) ==
    [ kind |-> kind,
      T |-> T,
      components |-> <<"T">>,       \* names of the attached components, in order
      var_names |-> {},             \* the indexed variables (each over T)
      domain |-> EmptyDict,         \* variable name -> domain
      lb |-> EmptyDict,             \* <<variable, index>> -> lower bound or None
      ub |-> EmptyDict,             \* <<variable, index>> -> upper bound or None
      initialize |-> EmptyDict,     \* variable name -> initial guess
      cons |-> {},                  \* constraints: [name, idx, body], body == 0
      piecewise |-> {},             \* Piecewise components: [name, out, indep, lo, hi]
      disjunctions |-> <<>>,        \* the Disjunction components: [name, rule], rule[t]
                                    \* the disjuncts of timestep t
      replaced |-> {},              \* names whose component was implicitly replaced
      hull |-> 0,                   \* how often gdp.hull was applied
      objectives |-> <<>>,          \* the Objective components attached
      discretized_equations |-> <<>>,
      log |-> <<>>,                 \* the building steps, in the order they ran
      error |-> "none",             \* the exception that ended the construction
      missing |-> {},               \* ... and the symbols it reports
      expr |-> None ]               \* ... and the expression it reports, if any

hasattr(m, name) == name \in Range(m.components)

\* setattr(model, name, Var(T, domain, bounds=(lb, ub), initialize))
AddVar(m, name, dom, lo, hi, guess) ==
    [m EXCEPT !.components = Append(@, name),
              !.var_names = @ \cup {name},
              !.domain = Put(@, name, dom),
              !.lb = Update(@, [k \in {<<name, i>> : i \in m.T} |-> lo]),
              !.ub = Update(@, [k \in {<<name, i>> : i \in m.T} |-> hi]),
              !.initialize = Put(@, name, guess)]

Logged(m, step) == [m EXCEPT !.log = Append(@, step)]
Failed(m, error) == [m EXCEPT !.error = error]

-----------------------------------------------------------------------------
(* Objective: optimization.py, and the target-expression grammar of
   optimization_complex.py *)

\* one term of an objective: coef * (var[idx] - shift) ** power
Term(coef, v, idx, shift, power) ==
    [coef |-> coef, var |-> v, idx |-> idx, shift |-> shift, power |-> power]

\* sum(var[t]**2 for t in model.T), as a set of terms; the empty set is the constant 0
SumOfSquares(m, v) == {Term(Q(1), v, t, Q(0), 2) : t \in m.T}

Max(S) == CHOOSE x \in S : \A y \in S : y <= x
Min(S) == CHOOSE x \in S : \A y \in S : x <= y

\* str.join: the chunks of a string put together
RECURSIVE Join(_)
Join(s) == IF s = <<>> THEN "" ELSE Head(s) \o Join(Tail(s))

\* `sub in s` and s.replace(chunk, '')
Contains(s, sub) == \E i \in 1..(Len(s) - Len(sub) + 1) : SubSeq(s, i, i + Len(sub) - 1) = sub
Remove(s, chunk) == SelectSeq(s, LAMBDA c : c # chunk)

\* the integer literals int() is applied to, and int() on one of them
IndexRange == -(MaxSteps + 2)..(MaxSteps + 2)
IsIntLiteral(c) == c \in {ToString(k) : k \in IndexRange}
int(c) == CHOOSE k \in IndexRange : ToString(k) = c

\* [a-zA-Z_]\w*
IsWord(c) == c \notin {"(", ")", "[", "]", "**2"} /\ ~IsIntLiteral(c)

\* the group ([^close]+) followed by close, matched from position i + 1 on; the
\* empty string when there is no such match
GroupAt(s, i, close) ==
    LET ends == {j \in (i + 1)..Len(s) : s[j] = close}
    IN  IF ends = {} \/ Min(ends) = i + 1 THEN <<>> ELSE SubSeq(s, i + 1, Min(ends) - 1)

\* re.search(r'<fname>\(([^)]+)\)', s): group(1) of the leftmost match, the empty
\* string without a match
search_call(fname, s) ==
    LET starts == {i \in 1..(Len(s) - 1) :
                      s[i] = fname /\ s[i + 1] = "(" /\ GroupAt(s, i + 1, ")") # <<>>}
    IN  IF starts = {} THEN <<>> ELSE GroupAt(s, Min(starts) + 1, ")")

\* re.search(r'([a-zA-Z_]\w*)\[([^\]]+)\]', s): <<group(1), group(2)>> of the leftmost
\* match, the empty tuple without a match
search_point(s) ==
    LET starts == {i \in 1..(Len(s) - 1) :
                      IsWord(s[i]) /\ s[i + 1] = "[" /\ GroupAt(s, i + 1, "]") # <<>>}
    IN  IF starts = {} THEN <<>>
        ELSE <<s[Min(starts)], Join(GroupAt(s, Min(starts) + 1, "]"))>>

\* list(model.T): the time set in increasing order
RECURSIVE list(_)
list(S) == IF S = {} THEN <<>> ELSE <<Min(S)>> \o list(S \ {Min(S)})

\* l[idx] of a Python list, for an index within -len(l)..len(l)-1
PyIndex(l, idx) == IF idx >= 0 THEN l[idx + 1] ELSE l[Len(l) + idx + 1]

\* sum(var[t] for t in model.T) and the single variable var[t]
LinearSum(m, v) == {Term(Q(1), v, t, Q(0), 1) : t \in m.T}
VarAt(v, t) == {Term(Q(1), v, t, Q(0), 1)}

\* a faulty variant of _parse_sum: the sum leaves out the first timestep
_parse_sum_short(expr_str, m) ==
    LET inner == search_call("sum", expr_str)
        var_name == Join(Remove(inner, "**2"))
        rest == [m EXCEPT !.T = @ \ {Min(@)}]
    IN  IF inner = <<>> THEN {}
        ELSE IF Contains(inner, <<"**2">>)
             THEN IF hasattr(m, var_name) THEN SumOfSquares(rest, var_name) ELSE {}
             ELSE IF hasattr(m, Join(inner)) THEN LinearSum(rest, Join(inner)) ELSE {}

\* _parse_sum of optimization_complex.py: sum(x**2) and sum(x); anything else inside
\* sum(...) is taken for a variable name, and 0 is returned when the model has
\* no component of that name
_parse_sum(expr_str, m) ==
    LET inner == search_call("sum", expr_str)
        var_name == Join(Remove(inner, "**2"))
    IN  IF inner = <<>> THEN {}
        ELSE IF Contains(inner, <<"**2">>)
             THEN IF hasattr(m, var_name) THEN SumOfSquares(m, var_name) ELSE {}
             ELSE IF hasattr(m, Join(inner)) THEN LinearSum(m, Join(inner)) ELSE {}

\* a faulty variant of _parse_point: every index resolves to the first timestep
_parse_point_first(expr_str, m) ==
    LET match == search_point(expr_str)
    IN  IF match = <<>> THEN {}
        ELSE IF ~hasattr(m, match[1]) THEN {}
        ELSE VarAt(match[1], list(m.T)[1])

\* _parse_point of optimization_complex.py: x[0], x[-1], x[k]; an index that is
\* no integer or lies below -len(T_list) ends in the bare except
_parse_point(expr_str, m) ==
    LET match == search_point(expr_str)
        var_name == match[1]
        index_str == match[2]
        T_list == list(m.T)
        last == T_list[Len(T_list)]
    IN  IF match = <<>> THEN {}
        ELSE IF ~hasattr(m, var_name) THEN {}
        ELSE IF index_str = "-1" THEN VarAt(var_name, last)
        ELSE IF index_str = "0" THEN VarAt(var_name, T_list[1])
        ELSE IF ~IsIntLiteral(index_str) THEN VarAt(var_name, last)
        ELSE IF int(index_str) >= Len(T_list) THEN VarAt(var_name, last)
        ELSE IF int(index_str) < -Len(T_list) THEN VarAt(var_name, last)
        ELSE VarAt(var_name, PyIndex(T_list, int(index_str)))

\* parse_tensor_expression of optimization_complex.py; the empty set of terms is
\* the constant 0
parse_tensor_expression(expr_str, m) ==
    IF Contains(expr_str, <<"sum", "(">>) THEN _parse_sum(expr_str, m)
    ELSE IF Contains(expr_str, <<"[">>) THEN _parse_point(expr_str, m)
    ELSE IF hasattr(m, Join(expr_str)) THEN SumOfSquares(m, Join(expr_str))
    ELSE {}

\* what a parser hands back: an expression, or the exception it raised
Returned(expr) == [error |-> "none", expr |-> expr]
Raised(error) == [error |-> error, expr |-> {}]

\* parse_global_sum_expression of optimization_complex.py: x**2, abs(x) and x inside
\* sum(...), the inner expression being what the regular expression captured
parse_global_sum_expression(expr_str, m) ==
    LET inner_expr == search_call("sum", expr_str)
        sq_name == Join(Remove(inner_expr, "**2"))
        abs_name == Join(search_call("abs", inner_expr))
    IN  IF inner_expr = <<>> THEN Raised("ValueError: Invalid sum expression")
        ELSE IF Contains(inner_expr, <<"**2">>)
             THEN Returned(IF hasattr(m, sq_name) THEN SumOfSquares(m, sq_name) ELSE {})
        ELSE IF Contains(inner_expr, <<"abs", "(">>)
             THEN Returned(IF search_call("abs", inner_expr) # <<>> /\ hasattr(m, abs_name)
                           THEN SumOfSquares(m, abs_name) ELSE {})
        ELSE Returned(IF hasattr(m, Join(inner_expr))
                      THEN LinearSum(m, Join(inner_expr)) ELSE {})

\* parse_pointwise_expression of optimization_complex.py: as _parse_point, but a
\* missing variable and a bad index are raised
parse_pointwise_expression(expr_str, m) ==
    LET point_match == search_point(expr_str)
        var_name == point_match[1]
        index_str == point_match[2]
        T_list == list(m.T)
        last == T_list[Len(T_list)]
    IN  IF point_match = <<>> THEN Raised("ValueError: Invalid pointwise expression")
        ELSE IF ~hasattr(m, var_name) THEN Raised("ValueError: Variable not found in model")
        ELSE IF index_str = "-1" THEN Returned(VarAt(var_name, last))
        ELSE IF index_str = "0" THEN Returned(VarAt(var_name, T_list[1]))
        ELSE IF ~IsIntLiteral(index_str) THEN Raised("ValueError: Invalid index")
        ELSE IF int(index_str) >= Len(T_list) THEN Returned(VarAt(var_name, last))
        ELSE IF int(index_str) < -Len(T_list) THEN Raised("ValueError: Invalid index")
        ELSE Returned(VarAt(var_name, PyIndex(T_list, int(index_str))))

\* create_tracking_objective: squared distance to the targets, for the unknown
\* functions that have one
create_tracking_objective(m, unknown_funcs, targets) ==
    UNION { {Term(Q(1), tg.var, t, tg.value, 2) : t \in m.T} :
                tg \in {x \in targets : x.var \in Range(unknown_funcs)} }

\* create_quadratic_penalty_objective: squares of every state and control variable
create_quadratic_penalty_objective(m, unknown_funcs, discrete_parameters) ==
    UNION { SumOfSquares(m, v) :
                v \in {f \in Range(unknown_funcs) : hasattr(m, f)}
                      \cup {d.name : d \in {x \in Range(discrete_parameters) : hasattr(m, x.name)}} }

Objective(expr, sense) == [expr |-> expr, sense |-> sense]

\* add_optimization_objective of optimization.py, the one build_global_model imports
add_optimization_objective(m, optimization_config, unknown_funcs, discrete_parameters) ==
    LET sense == IF optimization_config.objective_type = "minimize"
                 THEN "minimize" ELSE "maximize"
        obj ==
            IF ~optimization_config.enabled THEN Objective({}, "minimize")
            ELSE IF optimization_config.mode = "constraint_based" THEN Objective({}, "minimize")
            ELSE IF optimization_config.objective_function = "tracking"
                 THEN Objective(create_tracking_objective(m, unknown_funcs,
                                                          optimization_config.targets), sense)
                 ELSE Objective(create_quadratic_penalty_objective(m, unknown_funcs,
                                                                   discrete_parameters), sense)
    IN  Logged([m EXCEPT !.components = Append(@, "obj"), !.objectives = Append(@, obj)],
               "objective")

\* add_optimization_objective of optimization_complex.py, the tensor translator:
\* a constant objective when the optimization is disabled, an error without a
\* target expression, else the translated expression with the configured sense
optimization_complex_add_optimization_objective(m, optimization_config) ==
    LET sense == IF optimization_config.objective_type = "minimize"
                 THEN "minimize" ELSE "maximize"
        attach(obj) == Logged([m EXCEPT !.components = Append(@, "obj"),
                                        !.objectives = Append(@, obj)], "objective")
    IN  IF ~optimization_config.enabled THEN attach(Objective({}, "minimize"))
        ELSE IF optimization_config.target_expression = NoTarget
             THEN Failed(m, "ValueError: target_expression must be specified for tensor optimization!")
        ELSE attach(Objective(parse_tensor_expression(optimization_config.target_expression, m),
                              sense))

-----------------------------------------------------------------------------
(* Steps shared by the two builders *)

\* the Pyomo domain of a domain string, as add_extra_variables looks it up
PyomoDomain(domain_str) ==
    CASE domain_str = "reals" -> "Reals"
      [] domain_str = "integers" -> "Integers"
      [] domain_str = "binary" -> "Binary"
      [] OTHER -> "unknown"

\* a faulty variant of add_extra_variables: an unknown domain is taken for Reals
RECURSIVE add_extra_variables_lenient(_, _)
add_extra_variables_lenient(m, extra_vars) ==
    IF extra_vars = <<>> THEN m
    ELSE LET var_def == Head(extra_vars)
             domain == PyomoDomain(lower(var_def.domain))
             bounds == IF "bounds" \in DOMAIN var_def THEN var_def.bounds ELSE <<None, None>>
         IN  add_extra_variables_lenient(
                 AddVar(m, var_def.name, IF domain = "unknown" THEN "Reals" ELSE domain,
                        bounds[1], bounds[2], None),
                 Tail(extra_vars))

\* add_extra_variables of extra_variables.py: one variable over T per declared tuning
\* variable, the bounds passed through, (None, None) without bounds; an unknown
\* domain is an error
RECURSIVE add_extra_variables(_, _)
add_extra_variables(m, extra_vars) ==
    IF extra_vars = <<>> \/ m.error # "none" THEN m
    ELSE LET var_def == Head(extra_vars)
             domain == PyomoDomain(lower(var_def.domain))
             bounds == IF "bounds" \in DOMAIN var_def THEN var_def.bounds ELSE <<None, None>>
         IN  IF domain = "unknown"
             THEN Failed(m, "ValueError: Unknown domain")
             ELSE add_extra_variables(
                     AddVar(m, var_def.name, domain, bounds[1], bounds[2], None),
                     Tail(extra_vars))

\* a faulty variant of AddLookupTables: the bounds are set at the first index only
RECURSIVE AddLookupTablesFirstIndex(_, _, _, _)
AddLookupTablesFirstIndex(m, keys, lookup_tables, bounded) ==
    IF keys = <<>> \/ m.error # "none" THEN m
    ELSE LET key == Head(keys)
             tab == lookup_tables[key]
             m1 == AddVar(m, lower(key), "Reals", None, None, None)
         IN  IF ~hasattr(m1, tab.indep)
             THEN Failed(m1, "AttributeError: no such component")
             ELSE LET first(k) == tab.indep \in bounded /\ k = <<tab.indep, Min(m.T)>>
                      m2 == [m1 EXCEPT
                               !.lb = [k \in DOMAIN @ |->
                                         IF first(k) /\ @[k] = None THEN tab.lo ELSE @[k]],
                               !.ub = [k \in DOMAIN @ |->
                                         IF first(k) /\ @[k] = None THEN tab.hi ELSE @[k]],
                               !.components = Append(@, "PW_" \o lower(key)),
                               !.piecewise = @ \cup {[name |-> "PW_" \o lower(key),
                                                      out |-> lower(key), indep |-> tab.indep,
                                                      lo |-> tab.lo, hi |-> tab.hi]}]
                  IN  AddLookupTablesFirstIndex(m2, Tail(keys), lookup_tables, bounded)

\* a faulty variant of AddLookupTables: a table over a name the model does not hold
\* is left out
RECURSIVE AddLookupTablesSkipping(_, _, _, _)
AddLookupTablesSkipping(m, keys, lookup_tables, bounded) ==
    IF keys = <<>> \/ m.error # "none" THEN m
    ELSE LET key == Head(keys)
             tab == lookup_tables[key]
             m1 == AddVar(m, lower(key), "Reals", None, None, None)
         IN  IF ~hasattr(m1, tab.indep)
             THEN AddLookupTablesSkipping(m1, Tail(keys), lookup_tables, bounded)
             ELSE LET set(k) == tab.indep \in bounded /\ k[1] = tab.indep
                      m2 == [m1 EXCEPT
                               !.lb = [k \in DOMAIN @ |->
                                         IF set(k) /\ @[k] = None THEN tab.lo ELSE @[k]],
                               !.ub = [k \in DOMAIN @ |->
                                         IF set(k) /\ @[k] = None THEN tab.hi ELSE @[k]],
                               !.components = Append(@, "PW_" \o lower(key)),
                               !.piecewise = @ \cup {[name |-> "PW_" \o lower(key),
                                                      out |-> lower(key), indep |-> tab.indep,
                                                      lo |-> tab.lo, hi |-> tab.hi]}]
                  IN  AddLookupTablesSkipping(m2, Tail(keys), lookup_tables, bounded)

\* a faulty variant of AddLookupTables: where a side of the bounds is missing, both
\* sides are set to the table's range
RECURSIVE AddLookupTablesOverwriting(_, _, _, _)
AddLookupTablesOverwriting(m, keys, lookup_tables, bounded) ==
    IF keys = <<>> \/ m.error # "none" THEN m
    ELSE LET key == Head(keys)
             tab == lookup_tables[key]
             m1 == AddVar(m, lower(key), "Reals", None, None, None)
         IN  IF ~hasattr(m1, tab.indep)
             THEN Failed(m1, "AttributeError: no such component")
             ELSE LET set(k) == /\ tab.indep \in bounded
                                /\ k[1] = tab.indep
                                /\ (m1.lb[k] = None \/ m1.ub[k] = None)
                      m2 == [m1 EXCEPT
                               !.lb = [k \in DOMAIN @ |-> IF set(k) THEN tab.lo ELSE @[k]],
                               !.ub = [k \in DOMAIN @ |-> IF set(k) THEN tab.hi ELSE @[k]]]
                      m3 == [m2 EXCEPT
                               !.components = Append(@, "PW_" \o lower(key)),
                               !.piecewise = @ \cup {[name |-> "PW_" \o lower(key),
                                                      out |-> lower(key), indep |-> tab.indep,
                                                      lo |-> tab.lo, hi |-> tab.hi]}]
                  IN  IF \E i \in m.T : m2.lb[<<tab.indep, i>>] = None
                                            \/ m2.ub[<<tab.indep, i>>] = None
                      THEN Failed(m2, "ValueError: Piecewise found an unbounded variable")
                      ELSE AddLookupTablesOverwriting(m3, Tail(keys), lookup_tables, bounded)

\* the lookup loop: an output variable per table, the bounds of the independent
\* variable set to the table's range where it has none (in the sequential builder
\* for the unknown functions only), and the Piecewise component, which Pyomo refuses
\* to construct over a variable without bounds
RECURSIVE AddLookupTables(_, _, _, _)
AddLookupTables(m, keys, lookup_tables, bounded) ==
    IF keys = <<>> \/ m.error # "none" THEN m
    ELSE LET key == Head(keys)
             tab == lookup_tables[key]
             m1 == AddVar(m, lower(key), "Reals", None, None, None)
         IN  IF ~hasattr(m1, tab.indep)
             THEN Failed(m1, "AttributeError: no such component")
             ELSE LET set == tab.indep \in bounded
                      m2 == [m1 EXCEPT
                               !.lb = [k \in DOMAIN @ |->
                                         IF set /\ k[1] = tab.indep /\ @[k] = None
                                         THEN tab.lo ELSE @[k]],
                               !.ub = [k \in DOMAIN @ |->
                                         IF set /\ k[1] = tab.indep /\ @[k] = None
                                         THEN tab.hi ELSE @[k]]]
                      m3 == [m2 EXCEPT
                               !.components = Append(@, "PW_" \o lower(key)),
                               !.piecewise = @ \cup {[name |-> "PW_" \o lower(key),
                                                      out |-> lower(key), indep |-> tab.indep,
                                                      lo |-> tab.lo, hi |-> tab.hi]}]
                  IN  IF \E i \in m.T : m2.lb[<<tab.indep, i>>] = None
                                            \/ m2.ub[<<tab.indep, i>>] = None
                      THEN Failed(m2, "ValueError: Piecewise found an unbounded variable")
                      ELSE AddLookupTables(m3, Tail(keys), lookup_tables, bounded)

\* LogicSymbolMap of discrete_logic.py: every variable of the model at the index,
\* then the parameters, then the logic parameters
LogicSymbolMap(m, index, param_mapping, logic_parameters) ==
    Update(Update([v \in m.var_names |-> PVar(v, index)],
                  [k \in DOMAIN param_mapping |-> Num(param_mapping[k])]),
           [k \in DOMAIN logic_parameters |-> Num(logic_parameters[k])])

\* a faulty variant of parse_logic_expression: the variables are taken at the
\* first index of the time set
parse_logic_expression_at_first(expr, m, index, param_mapping, logic_parameters) ==
    LET sym_map == LogicSymbolMap(m, Min(m.T), param_mapping, logic_parameters)
        unmapped == (free_symbols(expr[2]) \cup free_symbols(expr[3])) \ DOMAIN sym_map
    IN  IF unmapped # {} THEN Raised("ValueError: Error converting sympy expression")
        ELSE Returned(<<expr[1], Substitute(expr[2], sym_map), Substitute(expr[3], sym_map)>>)

\* parse_logic_expression of discrete_logic.py: the relation with its symbols
\* replaced through the symbol map of the index; a symbol the map does not hold
\* fails the conversion
parse_logic_expression(expr, m, index, param_mapping, logic_parameters) ==
    LET sym_map == LogicSymbolMap(m, index, param_mapping, logic_parameters)
        unmapped == (free_symbols(expr[2]) \cup free_symbols(expr[3])) \ DOMAIN sym_map
    IN  IF unmapped # {} THEN Raised("ValueError: Error converting sympy expression")
        ELSE Returned(<<expr[1], Substitute(expr[2], sym_map), Substitute(expr[3], sym_map)>>)

\* disj_rule(m, t): per branch, its conditions followed by its assignments, parsed
\* at index t
disj_rule(m, t, disjunction_def, param_mapping, logic_parameters) ==
    [b \in DOMAIN disjunction_def |->
        [j \in DOMAIN (disjunction_def[b].conditions \o disjunction_def[b].assignments) |->
            parse_logic_expression((disjunction_def[b].conditions
                                        \o disjunction_def[b].assignments)[j],
                                   m, t, param_mapping, logic_parameters)]]

\* del_component, as Pyomo runs it when setattr names an existing component
del_component(m, name) ==
    [m EXCEPT !.components = SelectSeq(@, LAMBDA x : x # name),
              !.var_names = @ \ {name},
              !.cons = {k \in @ : k.name # name},
              !.piecewise = {w \in @ : w.name # name},
              !.disjunctions = SelectSeq(@, LAMBDA d : d.name # name),
              !.replaced = @ \cup {name}]

\* add_discrete_logic_constraints of discrete_logic.py: one Disjunction over T per
\* logic rule that has a disjunction, under the rule's name ("discrete_logic"
\* without one), or under the name followed by "_dup" when that name is taken; a
\* component that holds the name chosen is replaced
RECURSIVE add_discrete_logic_constraints(_, _, _, _)
add_discrete_logic_constraints(m, logic_constraints, param_mapping, logic_parameters) ==
    IF logic_constraints = <<>> \/ m.error # "none" THEN m
    ELSE LET logic == Head(logic_constraints)
             logic_name == IF "name" \in DOMAIN logic THEN logic.name ELSE "discrete_logic"
             disj_component_name == IF hasattr(m, logic_name) THEN logic_name \o "_dup" ELSE logic_name
             rule == [t \in m.T |-> disj_rule(m, t, logic.disjunction, param_mapping, logic_parameters)]
             failed == \E t \in m.T : \E b \in DOMAIN rule[t] : \E j \in DOMAIN rule[t][b] : rule[t][b][j].error # "none"
             m1 == IF hasattr(m, disj_component_name) THEN del_component(m, disj_component_name) ELSE m
         IN  IF logic.disjunction = <<>>
             THEN add_discrete_logic_constraints(m, Tail(logic_constraints), param_mapping, logic_parameters)
             ELSE IF failed THEN Failed(m, "ValueError: Error converting sympy expression")
             ELSE add_discrete_logic_constraints(
                     Logged([m1 EXCEPT
                               !.components = Append(@, disj_component_name),
                               !.disjunctions = Append(@, [name |-> disj_component_name,
                                   rule |-> [t \in m.T |-> [b \in DOMAIN rule[t] |-> [j \in DOMAIN rule[t][b] |-> rule[t][b][j].expr]]]])],
                            "disjunction"),
                     Tail(logic_constraints), param_mapping, logic_parameters)

\* a faulty variant of ApplyHull: the transformation is applied a second time
ApplyHullTwice(m) == Logged(Logged([m EXCEPT !.hull = @ + 2], "hull"), "hull")

\* TransformationFactory('gdp.hull').apply_to(model)
ApplyHull(m) == Logged([m EXCEPT !.hull = @ + 1], "hull")

-----------------------------------------------------------------------------
(* Monolithic builder: build_global_model.py *)

\* np.arange(0, final_time + dt_value, dt_value)
arange(final_time, dt_value) ==
    [i \in 1..RCeil(RDiv(RAdd(final_time, dt_value), dt_value)) |-> RMul(Q(i - 1), dt_value)]

\* lines 45-55: the initial conditions, from the first entries of the sparse tensors
TensorInitConditions(c) ==
    [k \in {f \o "0" : f \in {g \in DOMAIN c.tensors : c.tensors[g] # NaN}} |->
        c.tensors[CHOOSE g \in DOMAIN c.tensors : k = g \o "0"]]

\* lines 71-87: every equation discretized
DiscretizeAll(c) ==
    [j \in DOMAIN c.equations |->
        discretize_symbolic_eq(c.equations[j], c.dt_value, c.unknown_parameters,
                               c.discrete_parameters, c.lookup_tables)]

\* lines 93-107: a variable per unknown function, with the bounds its tensor declares
\* (the sequential builder, lines 129-134, passes no bounds)
RECURSIVE AddUnknownVars(_, _, _, _)
AddUnknownVars(m, unknown_funcs, guess, bounds) ==
    IF unknown_funcs = <<>> THEN m
    ELSE LET fname == Head(unknown_funcs)
             b == IF fname \in DOMAIN bounds THEN bounds[fname] ELSE <<None, None>>
         IN  AddUnknownVars(AddVar(m, fname, "Reals", b[1], b[2], guess[fname]),
                            Tail(unknown_funcs), guess, bounds)

\* a faulty variant of AddInitConstraints: an unknown function without an initial
\* condition is pinned to 0.0
AddInitConstraintsDefaulting(m, unknown_funcs, init_conditions) ==
    Logged([m EXCEPT
              !.components = @ \o SetToSeq({"init_" \o f : f \in Range(unknown_funcs)}),
              !.cons = @ \cup {[name |-> "init_" \o f, idx |-> 0,
                                body |-> Sub(PVar(f, 0),
                                             Num(IF (f \o "0") \in DOMAIN init_conditions
                                                 THEN init_conditions[f \o "0"] ELSE Q(0)))]
                               : f \in Range(unknown_funcs)}],
           "initial")

\* lines 109-117: init_<f>: f[0] == the initial condition, where there is one
AddInitConstraints(m, unknown_funcs, init_conditions) ==
    LET with == {f \in Range(unknown_funcs) : (f \o "0") \in DOMAIN init_conditions}
    IN  Logged([m EXCEPT
                  !.components = @ \o SetToSeq({"init_" \o f : f \in with}),
                  !.cons = @ \cup {[name |-> "init_" \o f, idx |-> 0,
                                    body |-> Sub(PVar(f, 0), Num(init_conditions[f \o "0"]))]
                                   : f \in with}],
               "initial")

\* lines 154-164: ode<j>_constraints over range(N), the rule called for every index;
\* the first rule that raises ends the construction
AddOdeConstraints(m, c, time_array, N) ==
    LET disc == m.discretized_equations
        made == [j \in DOMAIN disc |-> [i \in 0..(N - 1) |->
                    generate_constraint_rule(disc[j], m, i, c.unknown_parameters, c.parameters,
                        c.dt_value, c.lookup_tables,
                        IF c.minlp_enabled THEN c.discrete_parameters ELSE <<>>,
                        time_array)]]
        bad == {<<j, i>> \in (DOMAIN disc) \X (0..(N - 1)) : ~made[j][i].ok}
    IN  IF bad # {}
        THEN LET first == CHOOSE b \in bad : \A o \in bad :
                              b[1] < o[1] \/ (b[1] = o[1] /\ b[2] <= o[2])
                 r == made[first[1]][first[2]]
             IN  [m EXCEPT !.error = r.error, !.missing = r.missing, !.expr = r.expr]
        ELSE Logged([m EXCEPT
                !.components = @ \o [j \in DOMAIN disc |-> "ode" \o ToString(j) \o "_constraints"],
                !.cons = @ \cup {[name |-> "ode" \o ToString(b[1]) \o "_constraints",
                                  idx |-> b[2], body |-> made[b[1]][b[2]].body]
                                 : b \in (DOMAIN disc) \X (0..(N - 1))}],
             "ode")

\* the time grid of the monolithic model, lines 61-69: the time coordinate of the
\* first state tensor, else arange
MonolithicTimeGrid(c) ==
    IF c.tensors # EmptyDict THEN c.time_horizon ELSE arange(c.final_time, c.dt_value)

\* the grid cannot be built: arange of a final_time that is not defined
MonolithicGridFails(c) == c.tensors = EmptyDict /\ c.final_time = None

\* build_global_model
build_global_model(c) ==
    LET time_array == MonolithicTimeGrid(c)
        N == Len(time_array) - 1
        m0 == [NewModel("monolithic", 0..N) EXCEPT !.discretized_equations = DiscretizeAll(c)]
        m1 == Logged(AddUnknownVars(m0, c.unknown_parameters,
                                    [f \in Range(c.unknown_parameters) |-> None],
                                    [f \in DOMAIN c.bounds \cap DOMAIN c.tensors |-> c.bounds[f]]),
                     "variables")
        m2 == AddInitConstraints(m1, c.unknown_parameters, TensorInitConditions(c))
        m3 == AddLookupTables(m2, SetToSeq(DOMAIN c.lookup_tables), c.lookup_tables,
                              {c.lookup_tables[k].indep : k \in DOMAIN c.lookup_tables})
        m4 == IF m3.error = "none" /\ c.minlp_enabled /\ c.discrete_parameters # <<>>
              THEN add_extra_variables(m3, c.discrete_parameters) ELSE m3
        m5 == IF m4.error = "none" THEN AddOdeConstraints(m4, c, time_array, N) ELSE m4
        m6 == IF m5.error = "none" /\ c.minlp_enabled
              THEN ApplyHull(Logged(add_discrete_logic_constraints(m5, c.discrete_logic, c.parameters,
                                                               EmptyDict), "logic"))
              ELSE m5
    IN  IF m6.error = "none"
        THEN add_optimization_objective(m6, c.optimization, c.unknown_parameters,
                                        c.discrete_parameters)
        ELSE m6

-----------------------------------------------------------------------------
(* Sequential builder: build_sequential_model.py *)

\* lines 60-68: the trace arrays, zero everywhere but for index 0, which is read
\* from the init_conditions dict with the default 0.0
InitialTrace(c, time_array) ==
    [f \in Range(c.unknown_parameters) |->
        [i \in 1..Len(time_array) |->
            IF i = 1 /\ (f \o "0") \in DOMAIN c.init_conditions
            THEN c.init_conditions[f \o "0"] ELSE Q(0)]]

\* xreplace of several symbols by numbers
RECURSIVE ReplaceSymbols(_, _, _)
ReplaceSymbols(e, names, value) ==
    IF names = <<>> THEN e
    ELSE ReplaceSymbols(xreplace(e, Sym(Head(names)), Num(value[Head(names)])),
                        Tail(names), value)

\* lines 188-195: a bare tuning variable becomes its _ip1 symbol, its _i symbol 0.0
RECURSIVE ReplaceExtraSymbols(_, _)
ReplaceExtraSymbols(e, discrete_parameters) ==
    IF discrete_parameters = <<>> THEN e
    ELSE LET vname == Head(discrete_parameters).name
         IN  ReplaceExtraSymbols(
                 xreplace(xreplace(e, Sym(vname), Sym(vname \o "_ip1")),
                          Sym(vname \o "_i"), Zero),
                 Tail(discrete_parameters))

\* step_constraint_rule(m, eq_idx) of step n: the constraint, or the error raised
step_constraint_rule(m, eq, c, dt, t_np1, current_state) ==
    LET unknown_funcs == c.unknown_parameters
        extras == IF c.minlp_enabled /\ c.discrete_parameters # <<>>
                  THEN c.discrete_parameters ELSE <<>>
        keys == SetToSeq(DOMAIN c.lookup_tables)
        d0 == discretize_symbolic_eq(eq, dt, unknown_funcs, <<>>, c.lookup_tables)
        \* the previous state, as numbers
        d1 == ReplaceSymbols(d0, [j \in DOMAIN unknown_funcs |-> unknown_funcs[j] \o "_i"],
                             [s \in {f \o "_i" : f \in Range(unknown_funcs)} |->
                                 current_state[CHOOSE f \in Range(unknown_funcs) : s = f \o "_i"]])
        d2 == ReplaceExtraSymbols(d1, extras)
        d3 == ReplaceSymbols(d2, [j \in DOMAIN keys |-> upper(keys[j]) \o "_i"],
                             [s \in {upper(k) \o "_i" : k \in Range(keys)} |-> Q(0)])
        d4 == simplify(xreplace(d3, Sym("t"), Num(t_np1)))
        symbol_map ==
            Update(Update(Update(Update(
                [k \in {"t"} |-> Num(t_np1)],
                [s \in {f \o "_ip1" : f \in Range(unknown_funcs)} |->
                    PVar(CHOOSE f \in Range(unknown_funcs) : s = f \o "_ip1", 0)]),
                [s \in {d.name \o "_ip1" : d \in Range(extras)} |->
                    PVar((CHOOSE d \in Range(extras) : s = d.name \o "_ip1").name, 0)]),
                [s \in {upper(k) \o "_ip1" : k \in Range(keys)} |->
                    PVar(lower(CHOOSE k \in Range(keys) : s = upper(k) \o "_ip1"), 0)]),
                [k \in {"dt"} |-> Num(dt)])
        d5 == ReplaceSymbols(d4, SetToSeq(DOMAIN c.parameters), c.parameters)
        unmapped == missing_symbols(d5, symbol_map)
    IN  IF unmapped # {}
        THEN [ok |-> FALSE, error |-> "ValueError: Unmapped leftover symbols",
              missing |-> unmapped, expr |-> d5]
        ELSE IF ~Convertible(d5)
        THEN [ok |-> FALSE, error |-> "sympy2pyomo_expression: no Pyomo counterpart",
              missing |-> {}, expr |-> None]
        ELSE [ok |-> TRUE, body |-> Substitute(d5, symbol_map)]

\* model.step_constraints = Constraint(range(len(all_equations)), rule=step_constraint_rule)
AddStepConstraints(m, c, dt, t_np1, current_state) ==
    LET made == [j \in DOMAIN c.equations |->
                    step_constraint_rule(m, c.equations[j], c, dt, t_np1, current_state)]
        bad == {j \in DOMAIN made : ~made[j].ok}
    IN  IF bad # {}
        THEN LET r == made[Min(bad)]
             IN  [m EXCEPT !.error = r.error, !.missing = r.missing, !.expr = r.expr]
        ELSE Logged([m EXCEPT
                !.components = Append(@, "step_constraints"),
                !.cons = @ \cup {[name |-> "step_constraints", idx |-> j - 1,
                                  body |-> made[j].body] : j \in DOMAIN made}],
             "ode")

\* a faulty variant of build_step_model: after the first step the current state is
\* read one index early
build_step_model_lagging(c, time_array, step, trace) ==
    LET t_n == time_array[step + 1]
        t_np1 == time_array[step + 2]
        dt == RSub(t_np1, t_n)
        current_state == [f \in Range(c.unknown_parameters) |->
                             trace[f][IF step = 0 THEN 1 ELSE step]]
        m0 == NewModel("step", {0})
        m1 == Logged(AddUnknownVars(m0, c.unknown_parameters, current_state, EmptyDict),
                     "variables")
        m2 == IF c.minlp_enabled /\ c.discrete_parameters # <<>>
              THEN add_extra_variables(m1, c.discrete_parameters) ELSE m1
        m3 == AddLookupTables(m2, SetToSeq(DOMAIN c.lookup_tables), c.lookup_tables,
                              Range(c.unknown_parameters))
        m4 == IF m3.error = "none" /\ c.minlp_enabled
              THEN ApplyHull(Logged(add_discrete_logic_constraints(m3, c.discrete_logic, c.parameters,
                                                               EmptyDict), "logic"))
              ELSE m3
    IN  IF m4.error = "none" THEN AddStepConstraints(m4, c, dt, t_np1, current_state) ELSE m4

\* lines 94-230 of step n: the single-step model
build_step_model(c, time_array, step, trace) ==
    LET t_n == time_array[step + 1]
        t_np1 == time_array[step + 2]
        dt == RSub(t_np1, t_n)
        current_state == [f \in Range(c.unknown_parameters) |-> trace[f][step + 1]]
        m0 == NewModel("step", {0})
        m1 == Logged(AddUnknownVars(m0, c.unknown_parameters, current_state, EmptyDict),
                     "variables")
        m2 == IF c.minlp_enabled /\ c.discrete_parameters # <<>>
              THEN add_extra_variables(m1, c.discrete_parameters) ELSE m1
        m3 == AddLookupTables(m2, SetToSeq(DOMAIN c.lookup_tables), c.lookup_tables,
                              Range(c.unknown_parameters))
        m4 == IF m3.error = "none" /\ c.minlp_enabled
              THEN ApplyHull(Logged(add_discrete_logic_constraints(m3, c.discrete_logic, c.parameters,
                                                               EmptyDict), "logic"))
              ELSE m3
    IN  IF m4.error = "none" THEN AddStepConstraints(m4, c, dt, t_np1, current_state) ELSE m4

-----------------------------------------------------------------------------
(* The external solver *)

\* the termination conditions the solver may report
TerminationConditions == {"optimal", "infeasible", "maxTimeLimit"}

\* A constraint body over the pair (at, at + 1) with what is known at index `at`
\* put in as numbers and the index solved for renamed to 0
RECURSIVE Rebase(_, _, _)
Rebase(e, at, known) ==
    CASE e[1] = "var" -> IF e[3] = at /\ e[2] \in DOMAIN known
                         THEN Num(known[e[2]]) ELSE PVar(e[2], 0)
      [] IsBin(e) -> <<e[1], Rebase(e[2], at, known), Rebase(e[3], at, known)>>
      [] OTHER -> e

\* What the solver is handed for one grid index: the equations, the bounds of
\* the variables solved for, the piecewise links, the disjunctions and the objective
System(equations, m, idx) ==
    [ equations |-> equations,
      bounds |-> {<<v, m.lb[<<v, idx>>], m.ub[<<v, idx>>]>> : v \in m.var_names},
      piecewise |-> {<<w.out, w.indep, w.lo, w.hi>> : w \in m.piecewise},
      disjunctions |-> {d.name : d \in Range(m.disjunctions)},
      objective |-> UNION {o.expr : o \in Range(m.objectives)} ]

\* the part of the monolithic model that determines the unknowns at index `next`:
\* the ODE constraints of index next - 1, the values at next - 1 put in
StepSystem(m, next, known) ==
    System({simplify(Rebase(k.body, next - 1, known)) :
               k \in {x \in m.cons : x.idx = next - 1
                                     /\ x.name \notin {"init_" \o f : f \in m.var_names}}},
           m, next)

\* the single-step model as the solver sees it
SingleStepSystem(m) == System({simplify(k.body) : k \in m.cons}, m, 0)

\* the value the solver assigns to an unknown: a function of the system and of
\* how the solve ended
SolverValue(f, system, termination) == <<"sol", f, system, termination>>

\* the values an optimal solve of the monolithic model gives the unknown functions:
\* index 0 is what its init constraint states, every later index solves its step
RECURSIVE MonolithicValues(_, _, _)
MonolithicValues(m, unknown_funcs, i) ==
    IF i = 0
    THEN [f \in Range(unknown_funcs) |->
            LET pin == {k \in m.cons : k.name = "init_" \o f}
            IN  IF pin = {} THEN <<"free", f, 0>>
                ELSE (CHOOSE k \in pin : TRUE).body[3][2]]
    ELSE LET known == MonolithicValues(m, unknown_funcs, i - 1)
         IN  [f \in Range(unknown_funcs) |->
                SolverValue(f, StepSystem(m, i, known), "optimal")]

\* the variable instances an expression refers to
RECURSIVE Instances(_)
Instances(e) ==
    CASE e[1] = "var" -> {e}
      [] IsBin(e) -> Instances(e[2]) \cup Instances(e[3])
      [] OTHER -> {}

\* the variable instances the relations of a disjunct refer to
DisjunctInstances(disjunct) ==
    UNION {Instances(disjunct[j][2]) \cup Instances(disjunct[j][3]) : j \in DOMAIN disjunct}

\* the variable instances that are handed to the solver: those the constraints, the
\* Piecewise components, the disjunctions and the objective refer to
Exported(m) ==
    UNION {Instances(k.body) : k \in m.cons}
        \cup UNION {{PVar(w.out, i), PVar(w.indep, i)} : w \in m.piecewise, i \in m.T}
        \cup UNION {UNION {UNION {DisjunctInstances(d.rule[t][b]) : b \in DOMAIN d.rule[t]}
                              : t \in m.T}
                       : d \in Range(m.disjunctions)}
        \cup {PVar(term.var, term.idx) : term \in UNION {o.expr : o \in Range(m.objectives)}}

\* a variable instance holds a value after the solve: the solver returned one, or
\* the variable was created with an initial guess
HasValue(m, f, i) == PVar(f, i) \in Exported(m) \/ m.initialize[f] # None

\* value(var) of pyomo.environ after an optimal solve of the monolithic model: the
\* value, or the ValueError raised for a variable that holds none
value(m, unknown_funcs, f, i) ==
    IF HasValue(m, f, i)
    THEN [ok |-> TRUE, val |-> MonolithicValues(m, unknown_funcs, i)[f]]
    ELSE [ok |-> FALSE, error |-> "ValueError: No value for uninitialized NumericValue object"]

-----------------------------------------------------------------------------
(* run() of main.py *)

NoModel == NewModel("none", {})

\* a faulty variant of solve_model: a solve that ran into its time limit is accepted
solve_model_lenient(termination_condition) ==
    IF termination_condition = "infeasible"
    THEN [ok |-> FALSE, error |-> "ValueError: Solver terminated with condition: infeasible"]
    ELSE [ok |-> TRUE, error |-> "none"]

\* solve_model of solver.py: the result is returned for the termination condition
\* 'optimal' only, every other one is raised as it came
solve_model(termination_condition) ==
    IF termination_condition # "optimal"
    THEN [ok |-> FALSE,
          error |-> "ValueError: Solver terminated with condition: " \o termination_condition]
    ELSE [ok |-> TRUE, error |-> "none"]

\* extract_solution of solver.py after an optimal solve: the trace of every unknown
\* function over the time set, NaN where value(var) raises 'No value for
\* uninitialized'
extract_solution(m, unknown_funcs, time_set) ==
    [f \in Range(unknown_funcs) |->
        [i \in 1..Cardinality(time_set) |->
            IF value(m, unknown_funcs, f, i - 1).ok
            THEN value(m, unknown_funcs, f, i - 1).val ELSE NaN]]

\* extract_solution of msef/solver.py: the list comprehension over value(var), the
\* ValueError of the first variable without a value leaving the function
msef_extract_solution(m, unknown_funcs, time_set) ==
    IF \E f \in Range(unknown_funcs), t \in time_set : ~value(m, unknown_funcs, f, t).ok
    THEN [ok |-> FALSE, error |-> "ValueError: No value for uninitialized NumericValue object"]
    ELSE [ok |-> TRUE,
          sol_dict |-> [f \in Range(unknown_funcs) |->
                           [i \in 1..Cardinality(time_set) |->
                               value(m, unknown_funcs, f, i - 1).val]]]

Init ==
    /\ cfg \in Configs
    /\ pc = "start"
    /\ analysis = NoAnalysis
    /\ model = NoModel
    /\ tau = <<>>
    /\ results = <<>>
    /\ sol_dict = EmptyDict
    /\ n = 0
    /\ err = "none"
    /\ warnings = <<>>

\* a faulty variant of Analyze: an over-constrained problem ends the run
AnalyzeBlocking ==
    /\ pc = "start"
    /\ IF TimeStepsDefined(cfg)
       THEN /\ analysis' = analyze_constraint_structure(cfg)
            /\ pc' = IF analysis'.system_type = "over_constrained" THEN "error" ELSE "analyzed"
            /\ err' = IF analysis'.system_type = "over_constrained"
                      THEN "ValueError: over-constrained" ELSE "none"
       ELSE /\ analysis' = analysis
            /\ pc' = "error"
            /\ err' = "ValueError: final_time and dt_value must be defined in the problem data"
    /\ UNCHANGED <<cfg, model, tau, results, sol_dict, n, warnings>>

\* main.py lines 46-49: the three analyses; count_time_steps raises when dt_value
\* or final_time is not defined
Analyze ==
    /\ pc = "start"
    /\ IF TimeStepsDefined(cfg)
       THEN /\ analysis' = analyze_constraint_structure(cfg)
            /\ pc' = "analyzed"
            /\ err' = "none"
       ELSE /\ analysis' = analysis
            /\ pc' = "error"
            /\ err' = "ValueError: final_time and dt_value must be defined in the problem data"
    /\ UNCHANGED <<cfg, model, tau, results, sol_dict, n, warnings>>

\* main.py lines 53-55: build_global_model()
BuildMonolithic ==
    /\ pc = "analyzed"
    /\ cfg.solve_mode = "monolithic"
    /\ IF MonolithicGridFails(cfg)
       THEN /\ model' = model
            /\ tau' = tau
            /\ pc' = "error"
            /\ err' = "TypeError: unsupported operand"
       ELSE /\ model' = build_global_model(cfg)
            /\ tau' = MonolithicTimeGrid(cfg)
            /\ pc' = IF model'.error = "none" THEN "built" ELSE "error"
            /\ err' = model'.error
    /\ UNCHANGED <<cfg, analysis, results, sol_dict, n, warnings>>

\* main.py line 56: solve_model(model), the solver's answer being any
\* termination condition
SolveMonolithic ==
    /\ pc = "built"
    /\ \E termination_condition \in TerminationConditions :
          /\ results' = Append(results, termination_condition)
          /\ pc' = IF solve_model(termination_condition).ok THEN "solved" ELSE "error"
          /\ err' = solve_model(termination_condition).error
    /\ UNCHANGED <<cfg, analysis, model, tau, sol_dict, n, warnings>>

\* main.py lines 58-70: the results analysed, extracted, packaged and plotted
ExtractMonolithic ==
    /\ pc = "solved"
    /\ sol_dict' = extract_solution(model, cfg.unknown_parameters, model.T)
    /\ pc' = "done"
    /\ UNCHANGED <<cfg, analysis, model, tau, results, n, err, warnings>>

\* build_sequential_model.py lines 52-68: the grid and the trace arrays
SeqStart ==
    /\ pc = "analyzed"
    /\ cfg.solve_mode = "timewise"
    /\ tau' = arange(cfg.final_time, cfg.dt_value)
    /\ sol_dict' = InitialTrace(cfg, tau')
    /\ n' = 0
    /\ pc' = IF Len(tau') - 1 > 0 THEN "stepping" ELSE "done"
    /\ UNCHANGED <<cfg, analysis, model, results, err, warnings>>

\* one pass of the loop, lines 94-258: the single-step model built, handed to the
\* solver, and the value of every unknown function stored at index n + 1
\* whatever the solver's termination condition; the clock then decides whether the
\* step sleeps or warns
SeqStep ==
    /\ pc = "stepping"
    /\ n < Len(tau) - 1
    /\ model' = build_step_model(cfg, tau, n, sol_dict)
    /\ IF model'.error # "none"
       THEN /\ pc' = "error"
            /\ err' = model'.error
            /\ UNCHANGED <<results, sol_dict, n, warnings>>
       ELSE \E termination_condition \in TerminationConditions :
              /\ results' = Append(results, termination_condition)
              /\ sol_dict' = [f \in DOMAIN sol_dict |->
                                [sol_dict[f] EXCEPT ![n + 2] =
                                    SolverValue(f, SingleStepSystem(model'),
                                                termination_condition)]]
              /\ n' = n + 1
              /\ pc' = IF n + 1 = Len(tau) - 1 THEN "done" ELSE "stepping"
              /\ err' = err
              \* lines 252-258: the step ended before its slice of wall-clock time
              \* (and sleeps) or after it (and warns)
              /\ \E behind_schedule \in BOOLEAN :
                    warnings' = IF behind_schedule THEN Append(warnings, n) ELSE warnings
    /\ UNCHANGED <<cfg, analysis, tau>>

Next ==
    \/ Analyze
    \/ BuildMonolithic
    \/ SolveMonolithic
    \/ ExtractMonolithic
    \/ SeqStart
    \/ SeqStep

Spec == Init /\ [][Next]_vars

-----------------------------------------------------------------------------
(* The objective translator of optimization_complex.py, applied to a model that
   holds its variables over the timestep set 0..N *)

\* the names a target expression refers to; "q" is on no model
TargetNames == {"x", "v", "q"}

\* the target expressions: every supported shape for every name, the point-wise one
\* for the indices -1..N+1 and for an index that is no integer
TargetExpressions ==
    {TargetSumSq(nm) : nm \in TargetNames} \cup {TargetSum(nm) : nm \in TargetNames}
        \cup {TargetSumAbs(nm) : nm \in TargetNames} \cup {TargetBare(nm) : nm \in TargetNames}
        \cup {TargetPoint(nm, k) : nm \in TargetNames, k \in -1..(MaxSteps + 1)}
        \cup {<<nm, "[", "end", "]">> : nm \in TargetNames}

\* what the translator is given: the optimization block, the number of timesteps
\* N and the variables of the model
TranslatorInputs ==
    [ optimization : {OptDisabled} \cup {OptTarget(e, sense) :
                          e \in TargetExpressions \cup {NoTarget},
                          sense \in {"minimize", "maximize"}},
      steps : 1..MaxSteps,
      variables : {{"x"}, {"x", "v"}} ]

\* a model with the time set 0..N and one indexed variable per name
RECURSIVE AddVars(_, _)
AddVars(m, names) ==
    IF names = <<>> THEN m
    ELSE AddVars(AddVar(m, Head(names), "Reals", None, None, None), Tail(names))
TranslatorModel(c) == AddVars(NewModel("translator", 0..c.steps), SetToSeq(c.variables))

TranslatorInit ==
    /\ cfg \in TranslatorInputs
    /\ pc = "target"
    /\ analysis = NoAnalysis
    /\ model = TranslatorModel(cfg)
    /\ tau = <<>>
    /\ results = <<>>
    /\ sol_dict = EmptyDict
    /\ n = 0
    /\ err = "none"
    /\ warnings = <<>>

\* add_optimization_objective(model, optimization_config)
TranslateObjective ==
    /\ pc = "target"
    /\ model' = optimization_complex_add_optimization_objective(model, cfg.optimization)
    /\ pc' = IF model'.error = "none" THEN "objective" ELSE "error"
    /\ err' = model'.error
    /\ UNCHANGED <<cfg, analysis, tau, results, sol_dict, n, warnings>>

\* parse_global_sum_expression(target_expression, model)
ParseGlobalSum ==
    /\ pc = "target"
    /\ results' = <<parse_global_sum_expression(cfg.optimization.target_expression, model)>>
    /\ pc' = "global_sum"
    /\ err' = results'[1].error
    /\ UNCHANGED <<cfg, analysis, model, tau, sol_dict, n, warnings>>

\* parse_pointwise_expression(target_expression, model)
ParsePointwise ==
    /\ pc = "target"
    /\ results' = <<parse_pointwise_expression(cfg.optimization.target_expression, model)>>
    /\ pc' = "pointwise"
    /\ err' = results'[1].error
    /\ UNCHANGED <<cfg, analysis, model, tau, sol_dict, n, warnings>>

TranslatorNext ==
    \/ TranslateObjective
    \/ ParseGlobalSum
    \/ ParsePointwise

TranslatorSpec == TranslatorInit /\ [][TranslatorNext]_vars

-----------------------------------------------------------------------------
(* Properties *)

\* the run has passed the analysis
Analysed == analysis # NoAnalysis

\* the number of steps of the grid of a problem definition, 0..N
Timesteps(c) == Len(c.time_horizon) - 1

\* the model of the monolithic builder stands complete
MonolithicBuilt == model.kind = "monolithic" /\ model.error = "none"

\* the backward-Euler substitution in one pass over an expression: d/dt f(t) becomes
\* (f_next - f_current)/dt and every other f(t) becomes f_next
RECURSIVE BackwardEuler(_, _, _)
BackwardEuler(e, funcs, dt) ==
    CASE e[1] = "d" /\ e[2][1] = "fn" /\ e[2][2] \in funcs ->
            Div(Sub(Sym(e[2][2] \o "_ip1"), Sym(e[2][2] \o "_i")), Num(dt))
      [] e[1] = "fn" /\ e[2] \in funcs -> Sym(e[2] \o "_ip1")
      [] e[1] = "call" -> Call(e[2], BackwardEuler(e[3], funcs, dt))
      [] IsBin(e) -> <<e[1], BackwardEuler(e[2], funcs, dt), BackwardEuler(e[3], funcs, dt)>>
      [] OTHER -> e

\* the problem definition is the single linear ODE dx/dt = a
IsLinearProblem(c) == c.unknown_parameters = <<"x">> /\ DOMAIN c.parameters = {"a"}

\* C5: for dx/dt = a the discretized residual, evaluated at x_current = c0,
\* x_next = c1 and step h, equals (c1 - c0)/h - a, for all c0, c1, a and h; and in
\* every discretized equation each d/dt f(t) has become (f_next - f_current)/dt and
\* each remaining f(t) has become f_next
C5_BackwardEulerResidual ==
    MonolithicBuilt =>
        /\ IsLinearProblem(cfg) =>
              \A c0, c1 \in -MaxVal..MaxVal :
                  Eval(model.discretized_equations[1],
                       [s \in {"x_i", "x_ip1", "a"} |->
                           CASE s = "x_i" -> Q(c0) [] s = "x_ip1" -> Q(c1)
                             [] OTHER -> cfg.parameters["a"]])
                    = RSub(RDiv(Q(c1 - c0), cfg.dt_value), cfg.parameters["a"])
        /\ \A j \in DOMAIN cfg.equations :
              model.discretized_equations[j]
                = simplify(ReplaceLookups(
                      BackwardEuler(Sub(cfg.equations[j].lhs, cfg.equations[j].rhs),
                                    Range(cfg.unknown_parameters), cfg.dt_value),
                      SetToSeq(DOMAIN cfg.lookup_tables)))

\* C5 happens: dx/dt = 1 discretized with the step 1/2
C5_Witness ==
    /\ MonolithicBuilt
    /\ IsLinearProblem(cfg)
    /\ cfg.parameters["a"] = Q(1)
    /\ cfg.dt_value = Rat(1, 2)
    /\ model.discretized_equations =
          << Sub(Div(Sub(Sym("x_ip1"), Sym("x_i")), Num(Rat(1, 2))), Sym("a")) >>

\* the unknown functions with a declared initial value
DeclaredInitialValues(c) ==
    {f \in Range(c.unknown_parameters) :
        (f \in DOMAIN c.tensors /\ c.tensors[f] # NaN) \/ (f \o "0") \in DOMAIN c.init_conditions}

\* C7, as the specification states it: total_constraints = #initial_conditions
\* + #equations * #timesteps + #logic_rules * (#timesteps + 1) with logic enabled,
\* + 0 without
C7_TotalConstraintsAsSpecified ==
    Analysed =>
        analysis.total_constraints =
            Cardinality(DeclaredInitialValues(cfg))
              + Len(cfg.equations) * Timesteps(cfg)
              + (IF cfg.minlp_enabled THEN Len(cfg.discrete_logic) * (Timesteps(cfg) + 1) ELSE 0)

\* C7 is decided on system_data.py as it is: logic enabled, one logic rule, N = 2,
\* and no logic constraint counted
C7_Witness ==
    /\ Analysed
    /\ cfg.minlp_enabled
    /\ Len(cfg.discrete_logic) = 1
    /\ cfg.object_data_logic = None
    /\ Timesteps(cfg) = 2
    /\ analysis.logic_constraints = 0

ConstructionStarted == model.kind # "none" \/ tau # <<>>

\* what BuildMonolithic or SeqStart asks for besides the analysis having returned
BuilderInvocable == cfg.solve_mode \in {"monolithic", "timewise"}

\* C10: the analysis is diagnostic only: whatever the outcome of the analyzer, fully,
\* under- or over-constrained, the builder is invoked next; no outcome ends the run
C10_AnalysisNeverBlocks ==
    /\ [](Analysed => \/ pc = "analyzed" /\ BuilderInvocable
                      \/ pc # "analyzed" /\ ConstructionStarted)
    /\ [][pc = "analyzed" => ConstructionStarted']_vars

\* C10 happens: an over-constrained problem, and its model built
C10_Witness ==
    /\ analysis.system_type = "over_constrained"
    /\ MonolithicBuilt
    /\ pc = "built"

\* C3: solve_model returns only for the termination condition optimal; any other
\* one is raised, unmodified, there is no second solve, and nothing is extracted
C3_NonOptimalRaises ==
    (cfg.solve_mode = "monolithic" /\ results # <<>>) =>
        /\ Len(results) = 1
        /\ results[1] = "optimal" => pc \in {"solved", "done"} /\ err = "none"
        /\ results[1] # "optimal" =>
              /\ pc = "error"
              /\ err = "ValueError: Solver terminated with condition: " \o results[1]
              /\ sol_dict = EmptyDict

\* C3 happens: the solver reports a time limit for the monolithic model
C3_Witness ==
    /\ cfg.solve_mode = "monolithic"
    /\ results = <<"maxTimeLimit">>
    /\ pc = "error"
    /\ err = "ValueError: Solver terminated with condition: maxTimeLimit"

\* C4, as the specification states it: in the timewise mode a non-optimal
\* termination of the solve of step n ends the run: nothing is stored at index n + 1
\* of the trace and no later step is taken
C4_FailedStepStopsRun ==
    cfg.solve_mode = "timewise" =>
        \A i \in DOMAIN results :
            results[i] # "optimal" =>
                /\ pc = "error"
                /\ Len(results) = i
                /\ \A f \in DOMAIN sol_dict : sol_dict[f][i + 1] = Q(0)

\* C4 is decided on: step 0 ends infeasible, its value is stored and step 1 is solved
C4_Witness ==
    /\ cfg.solve_mode = "timewise"
    /\ Len(results) = 2
    /\ results[1] = "infeasible"
    /\ \E f \in DOMAIN sol_dict : sol_dict[f][2][1] = "sol" /\ sol_dict[f][2][4] = "infeasible"

\* a symbol is left in an expression
RECURSIVE HasSymbol(_)
HasSymbol(e) ==
    CASE e[1] = "sym" -> TRUE
      [] e[1] \in {"d", "fn"} -> TRUE
      [] e[1] = "call" -> TRUE
      [] IsBin(e) -> HasSymbol(e[2]) \/ HasSymbol(e[3])
      [] OTHER -> FALSE

\* the symbols the binding rules provide for: f_next and f_current of every unknown
\* function, the parameters, dt, LOOKUP_next of every table, the three forms of every
\* tuning variable that is a variable of the model, and t
BoundSymbols(c) ==
    UNION {{f \o "_ip1", f \o "_i"} : f \in Range(c.unknown_parameters)}
      \cup DOMAIN c.parameters
      \cup {"dt", "t"}
      \cup {upper(k) \o "_ip1" : k \in DOMAIN c.lookup_tables}
      \cup (IF c.minlp_enabled
            THEN UNION {{d.name, d.name \o "_ip1", d.name \o "_i"} : d \in Range(c.discrete_parameters)}
            ELSE {})

\* the symbols of the discretized equations the binding rules do not provide for
UnboundSymbols(c) ==
    UNION {free_symbols(BackwardEuler(Sub(c.equations[j].lhs, c.equations[j].rhs),
                                      Range(c.unknown_parameters), c.dt_value))
              : j \in DOMAIN c.equations}
        \ (BoundSymbols(c) \cup {"x_ip1"})

\* the construction ended in a step that runs before the binder: the tuning
\* variables, the lookup tables, the logic rules
AbortedBeforeBinding ==
    model.error \in {"ValueError: Unknown domain", "AttributeError: no such component",
                     "ValueError: Piecewise found an unbounded variable",
                     "ValueError: Error converting sympy expression"}

\* C1: in both binders, a residual with a free symbol the symbol map does not hold
\* makes the constraint generation fail: no constraint is produced, and no missing
\* symbol is replaced by zero or another default
C1_UnboundSymbolFails ==
    /\ \A k \in model.cons : ~HasSymbol(k.body)
    /\ (UnboundSymbols(cfg) # {} /\ model.kind # "none" /\ ~AbortedBeforeBinding) =>
          /\ pc = "error"
          /\ model.error \in {"ValueError: Unmapped symbols detected",
                              "ValueError: Unmapped leftover symbols"}
          /\ model.missing # {}
          /\ model.missing \subseteq UnboundSymbols(cfg)
          /\ \A k \in model.cons : k.name \in {"init_" \o f : f \in Range(cfg.unknown_parameters)}

\* C1 happens: the parameter F is not declared, and the binder of the single-step
\* model reports it
C1_Witness ==
    /\ model.kind = "step"
    /\ pc = "error"
    /\ "F" \notin DOMAIN cfg.parameters
    /\ model.missing = {"F"}

\* C6, as the specification states it: the monolithic model carries exactly one
\* objective: with the optimization enabled, the translation of the configured target
\* expression with the configured sense; with it disabled, a neutral constant
C6_ObjectiveAsSpecified ==
    MonolithicBuilt =>
        /\ Len(model.objectives) = 1
        /\ ~cfg.optimization.enabled => model.objectives[1].expr = {}
        /\ (cfg.optimization.enabled /\ cfg.optimization.target_expression # NoTarget) =>
              model.objectives[1] =
                  Objective(parse_tensor_expression(cfg.optimization.target_expression, model),
                            cfg.optimization.objective_type)

\* C6 is decided on: the target sum(x**2), to be minimized, and a constant objective
C6_Witness ==
    /\ MonolithicBuilt
    /\ cfg.optimization.enabled
    /\ cfg.optimization.target_expression = TargetSumSq("x")
    /\ model.objectives = <<Objective({}, "minimize")>>

\* the spring-mass scenario: k_eff a fixed parameter, x(0) = 1, v(0) = 0 declared as
\* the first entries of the tensors, dt = 0.5, final_time = 1.0, no objective
SpringScenario(c) ==
    /\ c.equations = SpringEquations
    /\ DOMAIN c.parameters = {"m", "F", "k_soft", "k_stiff", "k_eff"}
    /\ DOMAIN c.tensors = {"x", "v"}
    /\ c.tensors["x"] = Q(1)
    /\ c.tensors["v"] = Q(0)
    /\ c.dt_value = Rat(1, 2)
    /\ c.final_time = Q(1)
    /\ ~c.optimization.enabled

\* the trace an optimal solve of the monolithic model of a problem definition gives
MonolithicTrace(c) ==
    extract_solution(build_global_model(c), c.unknown_parameters, build_global_model(c).T)

\* C2, as the specification states it: in the spring-mass scenario the sequential
\* builder produces, at every grid index 1..N, the x and v of the monolithic builder
C2_SameTrajectories ==
    (/\ SpringScenario(cfg)
     /\ cfg.solve_mode = "timewise"
     /\ pc = "done"
     /\ \A i \in DOMAIN results : results[i] = "optimal") =>
        \A f \in {"x", "v"} : \A i \in 2..Len(tau) :
            sol_dict[f][i] = MonolithicTrace(cfg)[f][i]

\* C2 is decided on: the scenario run in the timewise mode from the tensors alone,
\* every solve optimal, and the first step taken from x = 0
C2_Witness ==
    /\ SpringScenario(cfg)
    /\ cfg.init_conditions = EmptyDict
    /\ cfg.solve_mode = "timewise"
    /\ pc = "done"
    /\ \A i \in DOMAIN results : results[i] = "optimal"
    /\ sol_dict["x"][1] = Q(0)
    /\ MonolithicTrace(cfg)["x"][1] = Q(1)

\* the two builders agree where the init_conditions dict repeats the tensors
C2_SameTrajectoriesFromSameStart ==
    (/\ SpringScenario(cfg)
     /\ DOMAIN cfg.init_conditions = {"x0", "v0"}
     /\ cfg.solve_mode = "timewise"
     /\ pc = "done"
     /\ \A i \in DOMAIN results : results[i] = "optimal") =>
        \A f \in {"x", "v"} : \A i \in 1..Len(tau) :
            sol_dict[f][i] = MonolithicTrace(cfg)[f][i]

-----------------------------------------------------------------------------
(* The objective translator *)

\* the target expression handed to the translator, and the objective it attached
TargetIs(expr_str) ==
    cfg.optimization.enabled /\ cfg.optimization.target_expression = expr_str
Translated == pc = "objective" /\ Len(model.objectives) = 1
TranslatedExpr == model.objectives[1].expr

\* the timestep a point-wise index is to resolve to on the timestep set 0..N
ResolvedTimestep(k, N) == IF k = -1 THEN N ELSE IF k <= N THEN k ELSE N

\* C11: for a target "<name>[k]" whose name is a variable of a model over 0..N, the
\* translator (_parse_point behind parse_tensor_expression, and
\* parse_pointwise_expression) returns the variable at timestep 0 for k = 0, at N for
\* k = -1, at k for 0 <= k <= N and at N for k > N
C11_PointResolves ==
    \A nm \in TargetNames, k \in -1..(MaxSteps + 1) :
        (TargetIs(TargetPoint(nm, k)) /\ hasattr(model, nm)) =>
            /\ pc = "objective" =>
                  model.objectives = <<Objective(VarAt(nm, ResolvedTimestep(k, cfg.steps)),
                                                 cfg.optimization.objective_type)>>
            /\ pc = "pointwise" =>
                  results = <<Returned(VarAt(nm, ResolvedTimestep(k, cfg.steps)))>>

\* C11 is decided on: x[3] on a model over 0..2, resolved to x at timestep 2
C11_Witness ==
    /\ Translated
    /\ cfg.steps = 2
    /\ TargetIs(TargetPoint("x", 3))
    /\ TranslatedExpr = VarAt("x", 2)

\* C12, as the specification states it: for the target "sum(abs(<name>))" whose name
\* is a variable of the model, the translator returns the sum of the squares of that
\* variable over all timesteps, one term per index, as for "sum(<name>**2)"
C12_SumAbsIsSumOfSquares ==
    \A nm \in TargetNames :
        (TargetIs(TargetSumAbs(nm)) /\ hasattr(model, nm)) =>
            /\ pc = "objective" => TranslatedExpr = SumOfSquares(model, nm)
            /\ pc = "global_sum" => results = <<Returned(SumOfSquares(model, nm))>>

\* C12 is decided on: sum(abs(x)) with x on the model, translated to the constant 0
C12_Witness ==
    /\ Translated
    /\ TargetIs(TargetSumAbs("x"))
    /\ hasattr(model, "x")
    /\ TranslatedExpr = {}

\* the supported shapes of a target expression that refers to the name nm
SupportedTargets(nm) ==
    {TargetSum(nm), TargetSumSq(nm), TargetBare(nm)}
        \cup {TargetPoint(nm, k) : k \in -1..(MaxSteps + 1)}

\* C13, as the specification states it: when the name a supported target expression
\* refers to is no component of the model, the translator raises an error and
\* attaches no objective
C13_UnresolvedNameRaises ==
    \A nm \in TargetNames :
        (cfg.optimization.enabled /\ cfg.optimization.target_expression \in SupportedTargets(nm)
            /\ ~hasattr(model, nm) /\ pc # "target") =>
                (pc \in {"objective", "error"} => (pc = "error" /\ model.objectives = <<>>))

\* C13 is decided on: sum(q**2) on a model without q, the constant 0 attached as
\* the objective and no error raised
C13_Witness ==
    /\ Translated
    /\ TargetIs(TargetSumSq("q"))
    /\ ~hasattr(model, "q")
    /\ TranslatedExpr = {}
    /\ err = "none"

\* C14: for the targets "sum(<name>**2)", "sum(<name>)" and the bare "<name>", the
\* name being a variable of a model over 0..N, the objective has exactly one term
\* per timestep, N + 1 in all, each the variable at that timestep (squared for
\* the first and the last shape)
C14_OneTermPerTimestep ==
    \A nm \in TargetNames :
        (Translated /\ hasattr(model, nm)) =>
            /\ TargetIs(TargetSumSq(nm)) \/ TargetIs(TargetBare(nm)) =>
                  /\ TranslatedExpr = {Term(Q(1), nm, t, Q(0), 2) : t \in 0..cfg.steps}
                  /\ Cardinality(TranslatedExpr) = cfg.steps + 1
            /\ TargetIs(TargetSum(nm)) =>
                  /\ TranslatedExpr = {Term(Q(1), nm, t, Q(0), 1) : t \in 0..cfg.steps}
                  /\ Cardinality(TranslatedExpr) = cfg.steps + 1

\* C14 is decided on: sum(v**2) on a model over 0..2, three terms
C14_Witness ==
    /\ Translated
    /\ cfg.steps = 2
    /\ TargetIs(TargetSumSq("v"))
    /\ hasattr(model, "v")
    /\ Cardinality(TranslatedExpr) = 3

-----------------------------------------------------------------------------
(* The builders' steps *)

\* a builder has constructed a model: the monolithic one, or the single-step model
\* of the step that ran last
Constructed == model.kind \in {"monolithic", "step"} /\ model.error = "none"

\* the tuning variables the problem declares, and the variables declared with bounds
TuningNames(c) == {d.name : d \in Range(c.discrete_parameters)}
DeclaredWithBounds(c) ==
    {d.name : d \in {x \in Range(c.discrete_parameters) : "bounds" \in DOMAIN x}}
        \cup (DOMAIN c.bounds \cap DOMAIN c.tensors)

\* C15: after the construction of the monolithic model and of every single-step
\* model, the variable a lookup table is attached to, when it has no declared bounds,
\* is bounded by the least and the greatest sample point of the table at every index
\* of the model's time set
C15_LookupBoundsVariable ==
    Constructed =>
        \A w \in model.piecewise :
            w.indep \notin DeclaredWithBounds(cfg) =>
                \A i \in model.T :
                    /\ model.lb[<<w.indep, i>>] = w.lo
                    /\ model.ub[<<w.indep, i>>] = w.hi

\* C15 happens: the single-step model of the spring system, x bounded to [-2, 2]
C15_Witness ==
    /\ Constructed
    /\ model.kind = "step"
    /\ \E w \in model.piecewise : w.indep = "x" /\ w.lo = Q(-2) /\ w.hi = Q(2)
    /\ model.lb[<<"x", 0>>] = Q(-2)
    /\ model.ub[<<"x", 0>>] = Q(2)

\* a lookup table of the problem names a variable that is neither an unknown
\* function nor a declared tuning variable
MisnamedLookup(c) ==
    \E k \in DOMAIN c.lookup_tables :
        c.lookup_tables[k].indep \notin Range(c.unknown_parameters) \cup TuningNames(c)

\* C20: when a lookup table names a variable that is no declared variable, both
\* builders abort with an error: no model is returned, nothing is handed to the solver
C20_MisnamedLookupAborts ==
    MisnamedLookup(cfg) =>
        /\ pc \notin {"built", "solved", "done"}
        /\ results = <<>>
        /\ model.kind # "none" =>
              /\ pc = "error"
              /\ model.error = "AttributeError: no such component"
              /\ err = model.error

\* C20 happens: the table over y, and the sequential builder aborted in step 0
C20_Witness ==
    /\ MisnamedLookup(cfg)
    /\ model.kind = "step"
    /\ pc = "error"
    /\ n = 0
    /\ results = <<>>

\* the declarations of tuning variables with a domain the code knows, and whether
\* the model holds the variable of a declaration as declared
KnownDomain(d) == PyomoDomain(lower(d.domain)) # "unknown"
CreatedAsDeclared(d) ==
    /\ d.name \in model.var_names
    /\ model.domain[d.name] = PyomoDomain(lower(d.domain))
    /\ \A i \in model.T :
          /\ model.lb[<<d.name, i>>] = (IF "bounds" \in DOMAIN d THEN d.bounds[1] ELSE None)
          /\ model.ub[<<d.name, i>>] = (IF "bounds" \in DOMAIN d THEN d.bounds[2] ELSE None)

\* C19, as the specification states it: every declared tuning variable of a known
\* domain is a variable of the constructed model, over every timestep and with the
\* declared bounds, and no model is constructed from a declaration of another domain
C19_TuningVariablesAsDeclared ==
    Constructed =>
        \A j \in DOMAIN cfg.discrete_parameters :
            /\ KnownDomain(cfg.discrete_parameters[j])
            /\ CreatedAsDeclared(cfg.discrete_parameters[j])

\* C19, amended: with MINLP enabled, every declared tuning variable of a known domain
\* is a variable of the constructed model, over every timestep and with the declared
\* bounds, and a declaration of another domain aborts the construction
C19_TuningVariablesWithMinlp ==
    /\ (Constructed /\ cfg.minlp_enabled) =>
          \A j \in DOMAIN cfg.discrete_parameters :
              /\ KnownDomain(cfg.discrete_parameters[j])
              /\ CreatedAsDeclared(cfg.discrete_parameters[j])
    /\ (cfg.minlp_enabled /\ model.kind # "none"
            /\ \E j \in DOMAIN cfg.discrete_parameters : ~KnownDomain(cfg.discrete_parameters[j])) =>
          /\ pc = "error"
          /\ model.error = "ValueError: Unknown domain"

\* C19 happens: the integer variable gear with bounds [1, 5] and the binary variable
\* boost without bounds, in the monolithic model
C19_Witness ==
    /\ Constructed
    /\ model.kind = "monolithic"
    /\ cfg.minlp_enabled
    /\ {"gear", "boost"} \subseteq model.var_names
    /\ model.domain["gear"] = "Integers"
    /\ model.lb[<<"gear", 0>>] = Q(1)
    /\ model.domain["boost"] = "Binary"
    /\ model.ub[<<"boost", 0>>] = None

\* the positions of a building step in the log of the model
Positions(step) == {i \in DOMAIN model.log : model.log[i] = step}

\* the logic rules that carry a disjunction
RulesWithDisjunction(c) == {j \in DOMAIN c.discrete_logic : c.discrete_logic[j].disjunction # <<>>}

\* C17: with MINLP enabled, a constructed model (monolithic or single-step) has had
\* the hull transformation applied exactly once, after every disjunction was
\* attached and before the objective was; the solver is given the model after that;
\* with MINLP disabled the transformation is never applied
C17_HullOnce ==
    /\ model.hull = Cardinality(Positions("hull"))
    /\ ~cfg.minlp_enabled => model.hull = 0
    /\ (Constructed /\ cfg.minlp_enabled) =>
          /\ model.hull = 1
          /\ Cardinality(Positions("disjunction")) = Cardinality(RulesWithDisjunction(cfg))
          /\ \A i \in Positions("disjunction"), h \in Positions("hull") : i < h
          /\ \A o \in Positions("objective"), h \in Positions("hull") : h < o
    /\ (results # <<>> /\ cfg.minlp_enabled) => model.hull = 1

\* C17 happens: the monolithic model of system_data.py, one disjunction, then the
\* hull transformation, then the objective
C17_Witness ==
    /\ Constructed
    /\ model.kind = "monolithic"
    /\ cfg.minlp_enabled
    /\ Len(model.disjunctions) = 1
    /\ model.hull = 1
    /\ \E i \in Positions("disjunction"), h \in Positions("hull"), o \in Positions("objective") :
          i < h /\ h < o

\* C18, as the specification states it: after the logic rules were added, no
\* component of the model was replaced, and every rule that carries a disjunction
\* is present as a Disjunction under a name of its own
C18_DisjunctionsKeepDistinctNames ==
    (Constructed /\ cfg.minlp_enabled) =>
        /\ model.replaced = {}
        /\ Len(model.disjunctions) = Cardinality(RulesWithDisjunction(cfg))
        /\ \A i, j \in DOMAIN model.disjunctions :
              i # j => model.disjunctions[i].name # model.disjunctions[j].name

\* C18 is decided on: three rules under one name, the second one's Disjunction
\* replaced by the third one's
C18_Witness ==
    /\ Constructed
    /\ Len(cfg.discrete_logic) = 3
    /\ model.replaced = {"spring_stiffness_logic_dup"}
    /\ Len(model.disjunctions) = 2

\* p <= q and p < q on rationals
RLe(p, q) == p[1] * q[2] <= q[1] * p[2]
RLt(p, q) == p[1] * q[2] < q[1] * p[2]

\* the variables a bound relation refers to
RelVars(rel) == {e \in {rel[2], rel[3]} : e[1] = "var"}

\* the value of a side of a bound relation, and whether the relation holds, under
\* an assignment of values to the variables
SideValue(e, val) == IF e[1] = "var" THEN val[<<e[2], e[3]>>] ELSE e[2]
Holds(rel, val) ==
    CASE rel[1] = "le" -> RLe(SideValue(rel[2], val), SideValue(rel[3], val))
      [] rel[1] = "ge" -> RLe(SideValue(rel[3], val), SideValue(rel[2], val))
      [] rel[1] = "eq" -> SideValue(rel[2], val) = SideValue(rel[3], val)

\* a solution may select a branch only when every constraint of the branch holds
Selectable(disjunct, val) == \A j \in DOMAIN disjunct : Holds(disjunct[j], val)

\* positions on both sides of the threshold 0.5 and on it, and stiffnesses
SamplePositions == {Rat(3, 10), Rat(1, 2), Rat(4, 5)}
Stiffnesses == {Q(500), Q(1000), Q(2000)}

\* the assignments of a position to x and a stiffness to k_eff at timestep t and at
\* the first timestep
Assignments(t) ==
    {val \in [{"x", "k_eff"} \X {t, Min(model.T)} -> SamplePositions \cup Stiffnesses] :
        \A k \in DOMAIN val : val[k] \in (IF k[1] = "x" THEN SamplePositions ELSE Stiffnesses)}

\* the logic of the problem is the rule of system_data.py, once or several times
SpringLogicOnly(c) ==
    /\ c.discrete_logic # <<>>
    /\ \A j \in DOMAIN c.discrete_logic :
          c.discrete_logic[j].disjunction = SpringLogic.disjunction

\* C16: with the rule of system_data.py, every Disjunction of a constructed model has
\* at each timestep t two branches over x[t] and k_eff[t] alone, and whichever branch
\* a solution selects at t, its condition and assignment hold there: x[t] below 0.5
\* goes with k_eff[t] = 500, x[t] above 0.5 with k_eff[t] = 2000
C16_BranchBindsStiffness ==
    (Constructed /\ cfg.minlp_enabled /\ SpringLogicOnly(cfg)) =>
        /\ model.disjunctions # <<>>
        /\ \A d \in Range(model.disjunctions) : \A t \in model.T :
              /\ Len(d.rule[t]) = 2
              /\ \A b \in DOMAIN d.rule[t] :
                    /\ UNION {RelVars(d.rule[t][b][j]) : j \in DOMAIN d.rule[t][b]}
                          = {PVar("x", t), PVar("k_eff", t)}
                    /\ \A val \in Assignments(t) :
                          Selectable(d.rule[t][b], val) =>
                              /\ RLt(val[<<"x", t>>], Rat(1, 2)) => val[<<"k_eff", t>>] = Q(500)
                              /\ RLt(Rat(1, 2), val[<<"x", t>>]) => val[<<"k_eff", t>>] = Q(2000)
              /\ \A val \in Assignments(t) :
                    (val[<<"x", t>>] # Rat(1, 2) /\ val[<<"k_eff", t>>] \in {Q(500), Q(2000)}) =>
                        Cardinality({b \in DOMAIN d.rule[t] : Selectable(d.rule[t][b], val)}) <= 1

\* C16 happens: the monolithic model of system_data.py over 0..2; at timestep 1 the
\* first branch can be selected with x = 0.3 and k_eff = 500, the second with x = 0.8
\* and k_eff = 2000
C16_Witness ==
    /\ Constructed
    /\ model.kind = "monolithic"
    /\ model.T = 0..2
    /\ Len(model.disjunctions) = 1
    /\ \E val \in Assignments(1) :
          /\ val[<<"x", 1>>] = Rat(3, 10) /\ val[<<"k_eff", 1>>] = Q(500)
          /\ Selectable(model.disjunctions[1].rule[1][1], val)
    /\ \E val \in Assignments(1) :
          /\ val[<<"x", 1>>] = Rat(4, 5) /\ val[<<"k_eff", 1>>] = Q(2000)
          /\ Selectable(model.disjunctions[1].rule[1][2], val)

-----------------------------------------------------------------------------
(* The sequential run and the initial state *)

\* the sequential builder has set up its trace arrays
TraceStarted == cfg.solve_mode = "timewise" /\ sol_dict # EmptyDict

\* the unknown functions with a declared initial value: a first tensor entry that
\* is not missing, which the monolithic builder pins at index 0
Pinned(c) == {f \in Range(c.unknown_parameters) : (f \o "0") \in DOMAIN TensorInitConditions(c)}

\* C24, as the specification states it: in a sequential run, index 0 of the trace of
\* every unknown function holds the declared initial value, the one the monolithic
\* builder pins at index 0, from the start of the run to its end, and the model of
\* step 0 is built from that value
C24_SequentialStartsFromDeclared ==
    TraceStarted =>
        \A f \in Pinned(cfg) :
            /\ sol_dict[f][1] = TensorInitConditions(cfg)[f \o "0"]
            /\ (model.kind = "step" /\ n <= 1 /\ Len(results) <= 1) =>
                  model.initialize[f] = TensorInitConditions(cfg)[f \o "0"]

\* C24 is decided on: x(0) = 1 declared as the first entry of the tensor of x and no
\* init_conditions dict; step 0 is built from x = 0 and index 0 of the trace holds 0
C24_Witness ==
    /\ TraceStarted
    /\ "x" \in Pinned(cfg)
    /\ cfg.tensors["x"] = Q(1)
    /\ cfg.init_conditions = EmptyDict
    /\ model.kind = "step"
    /\ n = 1
    /\ model.initialize["x"] = Q(0)
    /\ sol_dict["x"][1] = Q(0)

-----------------------------------------------------------------------------
(* What the binders report *)

\* the construction ended in a binder that found a symbol it holds nothing for
UnboundSymbolFailure ==
    model.error \in {"ValueError: Unmapped symbols detected",
                     "ValueError: Unmapped leftover symbols"}

\* the symbols of the discretized equation j the binding rules do not provide for,
\* and the first equation that has any
UnboundIn(c, j) ==
    free_symbols(BackwardEuler(Sub(c.equations[j].lhs, c.equations[j].rhs),
                               Range(c.unknown_parameters), c.dt_value))
        \ (BoundSymbols(c) \cup {"x_ip1"})
FirstOffending(c) == Min({j \in DOMAIN c.equations : UnboundIn(c, j) # {}})

\* C22, as the specification states it: the error of an unbound-symbol failure, in
\* either binder, carries the offending discretized expression and exactly the
\* missing symbols of that expression
C22_FailureReportsExpressionAndSymbols ==
    UnboundSymbolFailure =>
        /\ model.missing = UnboundIn(cfg, FirstOffending(cfg))
        /\ model.expr # None
        /\ model.missing \subseteq free_symbols(model.expr)

\* C22 is decided on: F is not declared, the monolithic binder names F and reports
\* no expression
C22_Witness ==
    /\ model.kind = "monolithic"
    /\ model.error = "ValueError: Unmapped symbols detected"
    /\ model.missing = {"F"}
    /\ model.expr = None

\* the sequential binder does report both
C22_SequentialReportsBoth ==
    model.error = "ValueError: Unmapped leftover symbols" =>
        /\ model.missing = UnboundIn(cfg, FirstOffending(cfg))
        /\ model.expr # None
        /\ model.missing \subseteq free_symbols(model.expr)

-----------------------------------------------------------------------------
(* The constraints of the monolithic model *)

\* the ODE constraints of equation j in the model
OdeConstraints(j) == {k \in model.cons : k.name = "ode" \o ToString(j) \o "_constraints"}

\* the body of the constraint of index i read back as a discretized expression: an
\* unknown function at i + 1 is f_next, at i f_current, the output of a lookup table
\* at i + 1 is LOOKUP_next, a tuning variable at i + 1 its bare symbol; an instance
\* at any other index has no symbol
RECURSIVE Unbound(_, _, _)
Unbound(e, i, c) ==
    CASE e[1] = "var" ->
            IF e[2] \in Range(c.unknown_parameters) /\ e[3] = i + 1 THEN Sym(e[2] \o "_ip1")
            ELSE IF e[2] \in Range(c.unknown_parameters) /\ e[3] = i THEN Sym(e[2] \o "_i")
            ELSE IF e[2] \in {lower(k) : k \in DOMAIN c.lookup_tables} /\ e[3] = i + 1
                 THEN Sym(upper(e[2]) \o "_ip1")
            ELSE IF e[2] \in TuningNames(c) /\ e[3] = i + 1 THEN Sym(e[2])
            ELSE Sym("?")
      [] IsBin(e) -> <<e[1], Unbound(e[2], i, c), Unbound(e[3], i, c)>>
      [] OTHER -> e

\* a discretized expression with its parameters, dt and t put in as numbers and
\* every other symbol left standing
WithNumbers(e, i, c) ==
    Substitute(e, Update(Update([k \in DOMAIN c.parameters |-> Num(c.parameters[k])],
                                [k \in {"dt"} |-> Num(c.dt_value)]),
                         [k \in {"t"} |-> Num(tau[i + 1])]))

\* C25: the monolithic model holds, for every discretized equation, exactly one
\* constraint for every i in 0..N-1 and none for another index; in the constraint of
\* index i every f_next stands as the instance (f, i+1), every f_current as (f, i),
\* every lookup output as its instance at i+1, and every instance lies in 0..N
C25_OneConstraintPerPair ==
    (MonolithicBuilt /\ tau # <<>>) =>
        LET N == Len(tau) - 1
        IN  \A j \in DOMAIN model.discretized_equations :
                /\ {k.idx : k \in OdeConstraints(j)} = 0..(N - 1)
                /\ Cardinality(OdeConstraints(j)) = N
                /\ \A k \in OdeConstraints(j) :
                      /\ Unbound(k.body, k.idx, cfg)
                            = WithNumbers(model.discretized_equations[j], k.idx, cfg)
                      /\ \A w \in Instances(k.body) :
                            w[3] \in {k.idx, k.idx + 1} /\ w[3] \in model.T

\* C25 happens: the spring system over 0..2; the second equation's constraint of
\* index 1 holds v at 1 and 2, x at 2 and the lookup output at 2
C25_Witness ==
    /\ MonolithicBuilt
    /\ model.T = 0..2
    /\ "damping" \in model.var_names
    /\ \E k \in OdeConstraints(2) :
          /\ k.idx = 1
          /\ Instances(k.body) = {PVar("v", 1), PVar("v", 2), PVar("x", 2), PVar("damping", 2)}

\* the unknown functions whose tensor has a first entry that is not missing, and
\* the constraints of the model that are no ODE constraint
DeclaredFirst(c) == {f \in Range(c.unknown_parameters) \cap DOMAIN c.tensors : c.tensors[f] # NaN}
InitConstraints ==
    {k \in model.cons : \A j \in DOMAIN model.discretized_equations : k \notin OdeConstraints(j)}

\* C26: the monolithic model holds the constraint f[0] == v0 for exactly the unknown
\* functions whose declared first entry v0 is not missing, one each; a function whose
\* first entry is missing has none, and no such constraint refers to another index
C26_InitialConstraints ==
    model.kind = "monolithic" =>
        /\ \A f \in DeclaredFirst(cfg) :
              [name |-> "init_" \o f, idx |-> 0, body |-> Sub(PVar(f, 0), Num(cfg.tensors[f]))]
                  \in InitConstraints
        /\ Cardinality(InitConstraints) = Cardinality(DeclaredFirst(cfg))
        /\ \A k \in InitConstraints : \A w \in Instances(k.body) : w[3] = 0

\* C26 happens: the spring system with x(0) = 1 declared and the first entry of v
\* missing: x is pinned, v is not
C26_Witness ==
    /\ MonolithicBuilt
    /\ DOMAIN cfg.tensors = {"x", "v"}
    /\ cfg.tensors["v"] = NaN
    /\ InitConstraints = {[name |-> "init_x", idx |-> 0, body |-> Sub(PVar("x", 0), Num(Q(1)))]}

-----------------------------------------------------------------------------
(* Equations the pipeline cannot bind *)

\* the functions of time an expression applies
RECURSIVE FunctionsOf(_)
FunctionsOf(e) ==
    CASE e[1] = "fn" -> {e[2]}
      [] e[1] = "d" -> FunctionsOf(e[2])
      [] e[1] = "call" -> FunctionsOf(e[3])
      [] IsBin(e) -> FunctionsOf(e[2]) \cup FunctionsOf(e[3])
      [] OTHER -> {}

\* the functions of time the equations refer to that are neither declared unknown
\* nor tuning variables
UndeclaredFunctions(c) ==
    UNION {FunctionsOf(c.equations[j].lhs) \cup FunctionsOf(c.equations[j].rhs)
              : j \in DOMAIN c.equations}
        \ (Range(c.unknown_parameters) \cup TuningNames(c))

RECURSIVE LookupCalls(_)
LookupCalls(e) ==
    CASE e[1] = "call" -> {e}
      [] e[1] = "d" -> LookupCalls(e[2])
      [] IsBin(e) -> LookupCalls(e[2]) \cup LookupCalls(e[3])
      [] OTHER -> {}

\* every call of a lookup function in the equations is a call of a declared table,
\* applied to the independent variable of that table, an unknown function
LookupsWellApplied(c) ==
    \A j \in DOMAIN c.equations :
        \A call \in LookupCalls(c.equations[j].lhs) \cup LookupCalls(c.equations[j].rhs) :
            /\ call[2] \in DOMAIN c.lookup_tables
            /\ c.lookup_tables[call[2]].indep \in Range(c.unknown_parameters)
            /\ call[3] = Fn(c.lookup_tables[call[2]].indep)

\* C27, as the specification states it: whatever the independent variable of a
\* table is called, no call of a lookup function is left in a discretized residual,
\* as the monolithic builder keeps it and as the step rule of the sequential builder
\* computes it
C27_NoLookupCallLeft ==
    LookupsWellApplied(cfg) =>
        /\ model.kind = "monolithic" =>
              \A j \in DOMAIN model.discretized_equations :
                  LookupCalls(model.discretized_equations[j]) = {}
        /\ model.kind = "step" =>
              \A j \in DOMAIN cfg.equations :
                  LookupCalls(discretize_symbolic_eq(cfg.equations[j], cfg.dt_value,
                                  cfg.unknown_parameters, <<>>, cfg.lookup_tables)) = {}

\* C27 is decided on: the damping table over v; DAMPING(v_next) stands in the second
\* discretized residual of the monolithic builder
C27_Witness ==
    /\ model.kind = "monolithic"
    /\ LookupsWellApplied(cfg)
    /\ DOMAIN cfg.lookup_tables = {"DAMPING"}
    /\ cfg.lookup_tables["DAMPING"].indep = "v"
    /\ Len(model.discretized_equations) = 2
    /\ Call("DAMPING", Sym("v_ip1")) \in LookupCalls(model.discretized_equations[2])

\* with every table over x no call is left
C27_NoLookupCallLeftOverX ==
    (LookupsWellApplied(cfg) /\ \A k \in DOMAIN cfg.lookup_tables : cfg.lookup_tables[k].indep = "x") =>
        /\ model.kind = "monolithic" =>
              \A j \in DOMAIN model.discretized_equations :
                  LookupCalls(model.discretized_equations[j]) = {}

-----------------------------------------------------------------------------
(* The lookup loop and the declared bounds *)

\* the bounds a variable of the model under construction was created with: those of
\* its tensor for an unknown function of the monolithic model, those of its
\* declaration for a tuning variable, none otherwise
DeclaredBounds(c, v) ==
    IF model.kind = "monolithic" /\ v \in Range(c.unknown_parameters)
                                 /\ v \in DOMAIN c.bounds \cap DOMAIN c.tensors
    THEN c.bounds[v]
    ELSE IF \E d \in Range(c.discrete_parameters) : d.name = v /\ "bounds" \in DOMAIN d
    THEN (CHOOSE d \in Range(c.discrete_parameters) : d.name = v /\ "bounds" \in DOMAIN d).bounds
    ELSE <<None, None>>

\* the lookup tables of the problem over the variable v
TablesOver(c, v) == {c.lookup_tables[k] : k \in {j \in DOMAIN c.lookup_tables : c.lookup_tables[j].indep = v}}

\* C30: in the monolithic model and in every single-step model, at every index of
\* the time set, a declared lower or upper bound of a variable is still the bound of
\* the variable after the lookup loop; a bound that differs from the declared one
\* is on a side that was declared without a bound, of a variable a lookup table is
\* over, and is the least (lower) or greatest (upper) sample point of that table,
\* each side by itself; a variable no table is over keeps both bounds
C30_LookupKeepsDeclaredBounds ==
    model.kind \in {"monolithic", "step"} =>
        \A k \in DOMAIN model.lb :
            LET declared == DeclaredBounds(cfg, k[1])
            IN  /\ declared[1] # None => model.lb[k] = declared[1]
                /\ declared[2] # None => model.ub[k] = declared[2]
                /\ model.lb[k] # declared[1] =>
                       \E tab \in TablesOver(cfg, k[1]) : model.lb[k] = tab.lo
                /\ model.ub[k] # declared[2] =>
                       \E tab \in TablesOver(cfg, k[1]) : model.ub[k] = tab.hi

\* C30 happens: the monolithic model of the spring system whose tensor of x declares
\* an upper bound only; the lookup loop set the lower bound and left the upper one
C30_Witness ==
    /\ Constructed
    /\ model.kind = "monolithic"
    /\ DOMAIN cfg.bounds = {"x"}
    /\ cfg.bounds["x"] = <<None, Q(MaxVal)>>
    /\ \A i \in model.T : model.lb[<<"x", i>>] = Q(-2) /\ model.ub[<<"x", i>>] = Q(MaxVal)

-----------------------------------------------------------------------------
(* The extraction of the solution *)

\* the run solved the monolithic model and extracted the solution
Extracted == cfg.solve_mode = "monolithic" /\ pc = "done"

\* the entries the extraction owes for the unknown function f: one per index of the
\* time set, in time order, the solved value, or NaN for an instance that no
\* constraint and no objective refers to
OwedEntries(f) ==
    [i \in 1..Cardinality(model.T) |->
        IF PVar(f, i - 1) \in Exported(model)
        THEN MonolithicValues(model, cfg.unknown_parameters, i - 1)[f] ELSE NaN]

\* C21: on every solved monolithic model, extract_solution, that of solver.py as
\* that of msef/solver.py, returns instead of raising, and returns for every unknown
\* function one entry per index of the time set, in time order: NaN for an instance
\* without a value, the solved value otherwise
C21_ExtractionNeverAborts ==
    Extracted =>
        LET legacy == msef_extract_solution(model, cfg.unknown_parameters, model.T)
        IN  /\ \A f \in Range(cfg.unknown_parameters) : sol_dict[f] = OwedEntries(f)
            /\ legacy.ok
            /\ \A f \in Range(cfg.unknown_parameters) : legacy.sol_dict[f] = OwedEntries(f)

\* C21 happens: the solution of the system with the output y extracted, y[0] without
\* a value and NaN in the trace, the entries after it solved values
C21_Witness ==
    /\ Extracted
    /\ cfg.unknown_parameters = <<"x", "y">>
    /\ ~HasValue(model, "y", 0)
    /\ sol_dict["y"][1] = NaN
    /\ \A i \in 2..Len(sol_dict["y"]) : sol_dict["y"][i] # NaN
    /\ \A i \in 1..Len(sol_dict["x"]) : sol_dict["x"][i] # NaN

\* the part of C21 that holds: the extraction of solver.py, which the run calls
C21_ExtractionSubstitutesNaN ==
    Extracted => \A f \in Range(cfg.unknown_parameters) : sol_dict[f] = OwedEntries(f)

-----------------------------------------------------------------------------
(* The order of the sequential run *)

\* a trace with every entry but those of the grid index `at` blanked
OnlyIndex(trace, at) ==
    [f \in DOMAIN trace |->
        [i \in DOMAIN trace[f] |-> IF i = at + 1 THEN trace[f][i] ELSE Q(0)]]

\* the sequential loop is running or has returned
InLoop == cfg.solve_mode = "timewise" /\ pc \in {"stepping", "done"} /\ tau # <<>>

\* between the steps: n steps are completed, n solves were made, the entries after
\* index n are not written yet, index 0 is what the loop started from, and the loop
\* has returned exactly when N steps are completed
BetweenSteps ==
    InLoop =>
        /\ n \in 0..(Len(tau) - 1)
        /\ Len(results) = n
        /\ Len(warnings) <= n
        /\ pc = "done" <=> n = Len(tau) - 1
        /\ \A f \in DOMAIN sol_dict :
              /\ sol_dict[f][1] = InitialTrace(cfg, tau)[f][1]
              /\ \A i \in (n + 2)..Len(tau) : sol_dict[f][i] = Q(0)

\* one pass of the loop: step n, its model built from the trace at index n alone,
\* every entry but that of index n + 1 left as it was, and, the step completed,
\* index n + 1 written with what the solver assigned and n + 1 steps done, whether
\* or not the step was reported behind schedule
StepInOrder ==
    pc = "stepping" =>
        /\ model' = build_step_model(cfg, tau, n, OnlyIndex(sol_dict, n))
        /\ DOMAIN sol_dict' = DOMAIN sol_dict
        /\ \A f \in DOMAIN sol_dict :
              /\ DOMAIN sol_dict'[f] = DOMAIN sol_dict[f]
              /\ \A i \in DOMAIN sol_dict[f] : i # n + 2 => sol_dict'[f][i] = sol_dict[f][i]
        /\ warnings' \in {warnings, Append(warnings, n)}
        /\ IF pc' = "error"
           THEN n' = n /\ sol_dict' = sol_dict /\ warnings' = warnings
           ELSE /\ n' = n + 1
                /\ Len(results') = n + 1
                /\ \A f \in DOMAIN sol_dict :
                      sol_dict'[f][n + 2] =
                          SolverValue(f, SingleStepSystem(model'), results'[n + 1])
                /\ pc' = IF n + 1 = Len(tau) - 1 THEN "done" ELSE "stepping"

\* C23: a sequential run over the grid 0..N executes the steps n = 0, .., N - 1 in
\* this order; step n builds its model from the trace at index n alone and writes
\* index n + 1 of every trace and no other entry, so that index 0 is never modified,
\* the entries up to n + 1 are final after step n, and a run whose steps all
\* complete returns after N steps with every index 1..N written once; a step
\* behind schedule adds a warning and changes nothing else
C23_StepsInOrder == [](BetweenSteps) /\ [][StepInOrder]_vars

\* C23 happens: a sequential run of at least two steps has returned, every solve
\* optimal, every step but the first reported behind schedule
C23_Witness ==
    /\ InLoop
    /\ pc = "done"
    /\ n = Len(tau) - 1
    /\ n >= 2
    /\ \A i \in DOMAIN results : results[i] = "optimal"
    /\ warnings = [i \in 1..(n - 1) |-> i]
    /\ \A f \in DOMAIN sol_dict : \A i \in 2..Len(tau) : sol_dict[f][i] # Q(0)

-----------------------------------------------------------------------------
(* The number of steps *)

\* the nearest integer of a rational that is not half-way between two integers
Round(q) == RFloor(RAdd(q, Rat(1, 2)))

\* the step count the analyzer, the time grid, the timestep set of the monolithic
\* model and the solution traces each stand for is N
StepCountIs(N) ==
    /\ Analysed =>
          /\ analysis.ode_constraints = Len(cfg.equations) * N
          /\ analysis.state_params = Len(cfg.unknown_parameters) * (N + 1)
    /\ tau # <<>> => Len(tau) = N + 1
    /\ model.kind = "monolithic" => model.T = 0..N
    /\ sol_dict # EmptyDict => \A f \in DOMAIN sol_dict : Len(sol_dict[f]) = N + 1

\* C29: for every final_time and dt_value that are defined, the analyzer's counts,
\* the time grid of either builder, the timestep set of the monolithic model and the
\* solution traces all stand for the same N = round(final_time / dt_value)
C29_OneStepCount ==
    TimeStepsDefined(cfg) => StepCountIs(Round(RDiv(cfg.final_time, cfg.dt_value)))

\* the case in which C29 fails: final_time is four thirds of dt_value, the analyzer
\* counted one step and the sequential builder laid out a grid of two
C29_Witness ==
    /\ TimeStepsDefined(cfg)
    /\ RDiv(cfg.final_time, cfg.dt_value) = Rat(4, 3)
    /\ Analysed
    /\ analysis.ode_constraints = Len(cfg.equations) * 1
    /\ cfg.solve_mode = "timewise"
    /\ Len(tau) = 3
    /\ \A f \in DOMAIN sol_dict : Len(sol_dict[f]) = 3

\* final_time is a whole number of steps, and so many steps the tensors span
OnGrid(c) ==
    /\ TimeStepsDefined(c)
    /\ RDiv(c.final_time, c.dt_value)[2] = 1
    /\ c.tensors # EmptyDict => Len(c.time_horizon) = RDiv(c.final_time, c.dt_value)[1] + 1

\* the part of C29 that holds: the counts agree where final_time is a whole number
\* of steps
C29_OneStepCountOnGrid ==
    OnGrid(cfg) => StepCountIs(Round(RDiv(cfg.final_time, cfg.dt_value)))

====
